---- MODULE Spec2Model ----
(***************************************************************************)
(* securequery-analytics: the policy-enforcing query gateway.              *)
(*                                                                         *)
(* The model follows src/src/engine/query_engine.py (QueryEngine),         *)
(* src/src/access/auth.py (AccessManager), src/src/security/encryption.py  *)
(* (EncryptionManager) and src/src/storage/database.py (DatabaseManager).  *)
(*                                                                         *)
(* Text is a sequence of fragments (strings): identifiers and message      *)
(* templates are sequences of indivisible fragments, cell values are       *)
(* sequences of single characters.  Concatenation is \o, so an f-string    *)
(* is the concatenation of its pieces.                                     *)
(***************************************************************************)
EXTENDS Integers, Sequences, FiniteSets, TLC

\* ------------------------------------------------------------- bounds
\* access_control.access_id is SERIAL: inserts stop at this id
MaxAccessId == 2
\* CURRENT_TIMESTAMP ranges over 1..MaxTime
MaxTime == 2
\* number of column keys Fernet.generate_key() hands out
MaxKey == 1
\* the same where columns are secured again: a key and its replacements
MaxRekey == 2
\* rows of compliance_log
MaxLog == 2

\* ------------------------------------------------------------- text
\* Python None and SQL NULL: a value different from every text
None == <<"None">>

Range(s) == {s[i] : i \in DOMAIN s}

RECURSIVE Concat(_)
\* the concatenation of a sequence of sequences
Concat(ss) == IF ss = <<>> THEN <<>> ELSE Head(ss) \o Concat(Tail(ss))

\* str.upper() on one fragment
UpperFrag(f) ==
    CASE f = "select" -> "SELECT"
      [] f = "from" -> "FROM"
      [] OTHER -> f

\* str.upper()
Upper(text) == [i \in DOMAIN text |-> UpperFrag(text[i])]

RECURSIVE LStrip(_)
LStrip(text) ==
    IF text # <<>> /\ Head(text) = " " THEN LStrip(Tail(text)) ELSE text

RECURSIVE RStrip(_)
RStrip(text) ==
    IF text # <<>> /\ text[Len(text)] = " "
    THEN RStrip(SubSeq(text, 1, Len(text) - 1)) ELSE text

\* str.strip()
Strip(text) == RStrip(LStrip(text))

\* is p a proper or improper prefix of s (used by no code path of the
\* gateway: SQL compares names with =)
IsPrefix(p, s) == Len(p) <= Len(s) /\ SubSeq(s, 1, Len(p)) = p

\* ------------------------------------------------------------- names
tEmployees == <<"emp", "loyees">>
tEmp == <<"emp">>
tNosuch == <<"nosuch">>
cId == <<"employee_id">>
cName == <<"name">>
cSsn == <<"ssn">>
cSalary == <<"sal", "ary">>
cConst == <<"?column?">>
STAR == <<"*">>
uAdmin == <<"test_admin">>
uAnalyst == <<"test_analyst">>
uGhost == <<"ghost">>

\* tables of the Datastore (information_schema.tables), with their columns
\* in ordinal position
Schema(t) ==
    CASE t = tEmployees -> <<cId, cName, cSsn, cSalary>>
      [] t = tEmp -> <<cName, cSsn>>
      [] OTHER -> <<>>

\* ------------------------------------------------------------- state
VARIABLES
    system_users,      \* rows of system_users: [user_id, username, role]
    access_control,    \* rows of access_control
    next_access_id,    \* the SERIAL sequence of access_control.access_id
    master_keys,       \* rows of master_keys: [table_name, column_name, encrypted_key]
    next_key,          \* the next fresh key / salt of the random source
    table_data,        \* the data tables: table name -> sequence of rows
    clock,             \* CURRENT_TIMESTAMP of the Datastore
    last,              \* the most recent call: its arguments and what it returned
    lag,               \* history: an allowed run, then a revocation, then the same run
    workers,           \* concurrent grant_access calls: each one's position and locals
    run,               \* an execute_query call in progress: its position and locals
    compliance_log,    \* rows of compliance_log, in the order of their log_id
    connection_pool,   \* the pool's connections: in use or not, and their transaction
    db_calls           \* DatabaseManager.execute_query calls: each one's position and locals

vars == <<system_users, access_control, next_access_id, master_keys, next_key,
          table_data, clock, last, lag, workers, run, compliance_log, connection_pool,
          db_calls>>

\* ------------------------------------------------------------- sqlparse
\* What sqlparse.parse(sql) returns (the library is not part of the
\* repository): a tuple of statements, each a list of top-level tokens.  A
\* token has a class (Token, Identifier, IdentifierList, Where), a ttype
\* ("None" for the grouping classes) and its text; an Identifier has a real
\* name; an IdentifierList has the tokens it groups.
Tok(ttype, text) ==
    [cls |-> "Token", ttype |-> ttype, value |-> text, real |-> None, items |-> <<>>]
Ident(nm) ==
    [cls |-> "Identifier", ttype |-> "None", value |-> nm, real |-> nm, items |-> <<>>]
IdentList(its) ==
    [cls |-> "IdentifierList", ttype |-> "None", value |-> <<>>, real |-> None,
     items |-> its]
WS == Tok("Whitespace", <<" ">>)
Comma == Tok("Punctuation", <<",">>)

\* The statements the callers submit.  run: what the Datastore does with the
\* text (select: a projection of one table; cross: a projection of the
\* product of two tables; const: a constant row; noresult: a statement that
\* runs and returns no result set).
sqlNameSsn ==
    [sql |-> "SELECT name, ssn FROM employees",
     parsed |-> << <<Tok("DML", <<"SELECT">>), WS,
                     IdentList(<<Ident(cName), Comma, WS, Ident(cSsn)>>), WS,
                     Tok("Keyword", <<"FROM">>), WS, Ident(tEmployees)>> >>,
     run |-> [kind |-> "select", table |-> tEmployees, columns |-> <<cName, cSsn>>]]
sqlNameSalary ==
    [sql |-> "SELECT name, salary FROM employees",
     parsed |-> << <<Tok("DML", <<"SELECT">>), WS,
                     IdentList(<<Ident(cName), Comma, WS, Ident(cSalary)>>), WS,
                     Tok("Keyword", <<"FROM">>), WS, Ident(tEmployees)>> >>,
     run |-> [kind |-> "select", table |-> tEmployees, columns |-> <<cName, cSalary>>]]
sqlMissing ==
    [sql |-> "SELECT name FROM nosuch",
     parsed |-> << <<Tok("DML", <<"SELECT">>), WS, Ident(cName), WS,
                     Tok("Keyword", <<"FROM">>), WS, Ident(tNosuch)>> >>,
     run |-> [kind |-> "select", table |-> tNosuch, columns |-> <<cName>>]]
sqlOne ==
    [sql |-> "select 1",
     parsed |-> << <<Tok("DML", <<"select">>), WS, Tok("Number", <<"1">>)>> >>,
     run |-> [kind |-> "const", table |-> None, columns |-> <<cConst>>]]
sqlDrop ==
    [sql |-> "DROP TABLE employees",
     parsed |-> << <<Tok("DDL", <<"DROP">>), WS, Tok("Keyword", <<"TABLE">>), WS,
                     Ident(tEmployees)>> >>,
     run |-> [kind |-> "noresult", table |-> tEmployees, columns |-> <<>>]]
sqlEmpty ==
    [sql |-> "",
     parsed |-> <<>>,
     run |-> [kind |-> "noresult", table |-> None, columns |-> <<>>]]

Statements == {sqlNameSsn, sqlNameSalary, sqlMissing, sqlOne, sqlDrop, sqlEmpty}

\* IdentifierList.get_identifiers(): the grouped tokens that are neither
\* whitespace nor punctuation
GetIdentifiers(token) ==
    SelectSeq(token.items, LAMBDA t : t.ttype \notin {"Whitespace", "Punctuation"})

\* get_real_name() exists on the grouping classes only; on a plain Token the
\* attribute lookup raises AttributeError
HasRealName(token) == token.cls # "Token"

\* ------------------------------------------------------------- parse_query
RECURSIVE ScanTables(_, _, _, _)
\* the loop of parse_query over the tokens after FROM
ScanTables(tokens, i, from_seen, tables) ==
    IF i > Len(tokens) THEN [ok |-> TRUE, tables |-> tables]
    ELSE LET token == tokens[i]
             seen == from_seen \/ (token.ttype = "Keyword" /\ Upper(token.value) = <<"FROM">>)
         IN  IF from_seen /\ token.cls = "IdentifierList"
             THEN LET ids == GetIdentifiers(token)
                  IN  IF \E k \in DOMAIN ids : ~HasRealName(ids[k])
                      THEN [ok |-> FALSE, tables |-> tables]
                      ELSE ScanTables(tokens, i + 1, seen,
                                      tables \o [k \in DOMAIN ids |-> ids[k].real])
             ELSE IF from_seen /\ token.cls = "Identifier"
             THEN ScanTables(tokens, i + 1, seen, Append(tables, token.real))
             ELSE IF from_seen /\ token.ttype = "Keyword"
             THEN [ok |-> TRUE, tables |-> tables]
             ELSE ScanTables(tokens, i + 1, seen, tables)

RECURSIVE ScanColumns(_, _, _, _)
\* the loop of parse_query over the tokens between SELECT and FROM
ScanColumns(tokens, i, select_seen, columns) ==
    IF i > Len(tokens) THEN [ok |-> TRUE, columns |-> columns]
    ELSE LET token == tokens[i]
         IN  IF token.ttype = "DML" /\ Upper(token.value) = <<"SELECT">>
             THEN ScanColumns(tokens, i + 1, TRUE, columns)
             ELSE IF ~select_seen
             THEN ScanColumns(tokens, i + 1, select_seen, columns)
             ELSE IF token.ttype = "Keyword" /\ Upper(token.value) = <<"FROM">>
             THEN [ok |-> TRUE, columns |-> columns]
             ELSE IF token.cls = "IdentifierList"
             THEN LET ids == GetIdentifiers(token)
                  IN  IF \E k \in DOMAIN ids : ~HasRealName(ids[k])
                      THEN [ok |-> FALSE, columns |-> columns]
                      ELSE ScanColumns(tokens, i + 1, select_seen,
                               columns \o SelectSeq([k \in DOMAIN ids |-> ids[k].real],
                                                    LAMBDA c : c # STAR))
             ELSE IF token.cls = "Identifier"
             THEN ScanColumns(tokens, i + 1, select_seen,
                              IF token.real # STAR THEN Append(columns, token.real)
                              ELSE columns)
             ELSE IF token.ttype = "None" /\ Strip(token.value) = STAR
             THEN ScanColumns(tokens, i + 1, select_seen, Append(columns, STAR))
             ELSE ScanColumns(tokens, i + 1, select_seen, columns)

\* the statement type: the text of the first DML token, upper-cased
StmtType(tokens) ==
    LET dml == {i \in DOMAIN tokens : tokens[i].ttype = "DML"}
    IN  IF dml = {} THEN None
        ELSE Upper(tokens[CHOOSE i \in dml : \A j \in dml : i <= j].value)

\* QueryEngine.parse_query.  ok = FALSE: the call raised (error is the
\* exception's text)
parse_query(stmt) ==
    IF stmt.parsed = <<>>
    THEN [ok |-> FALSE, error |-> <<"tuple index out of range">>,
          type |-> None, tables |-> <<>>, columns |-> <<>>]
    ELSE LET tokens == stmt.parsed[1]
             stmt_type == StmtType(tokens)
             t == ScanTables(tokens, 1, FALSE, <<>>)
             c == IF stmt_type = <<"SELECT">> THEN ScanColumns(tokens, 1, FALSE, <<>>)
                  ELSE [ok |-> TRUE, columns |-> <<>>]
         IN  IF t.ok /\ c.ok
             THEN [ok |-> TRUE, error |-> <<>>, type |-> stmt_type,
                   tables |-> t.tables, columns |-> c.columns]
             ELSE [ok |-> FALSE,
                   error |-> <<"'Token' object has no attribute 'get_real_name'">>,
                   type |-> None, tables |-> <<>>, columns |-> <<>>]

\* ------------------------------------------------------------- Datastore
\* SQL's = in a WHERE clause: never true when a side is NULL
SqlEq(a, b) == a # None /\ b # None /\ a = b

\* Python truthiness of an optional text
Truthy(x) == x # None /\ x # <<>>

\* DatabaseManager.table_exists
table_exists(table_name) == Schema(table_name) # <<>>

\* QueryEngine.get_table_columns over DatabaseManager.get_table_schema
get_table_columns(table_name) == Schema(table_name)

\* row[col]: the value of a cell of a fetched row (a sequence of [col, val])
Cell(row, col) ==
    LET idx == {i \in DOMAIN row : row[i].col = col}
    IN  IF idx = {} THEN None ELSE row[CHOOSE i \in idx : \A j \in idx : j <= i].val

\* list(row.keys())
Keys(row) == [i \in DOMAIN row |-> row[i].col]

\* DatabaseManager.execute_query(sql, fetch=True) on a caller's statement:
\* cursor.execute, then cursor.fetchall; a failure of either is rolled back
\* and raised
db_execute(stmt) ==
    CASE stmt.run.kind = "select" ->
           IF ~table_exists(stmt.run.table)
           THEN [ok |-> FALSE, error |-> <<"relation does not exist">>, rows |-> <<>>]
           ELSE [ok |-> TRUE, error |-> <<>>,
                 rows |-> [i \in DOMAIN table_data[stmt.run.table] |->
                            [k \in DOMAIN stmt.run.columns |->
                               [col |-> stmt.run.columns[k],
                                val |-> Cell(table_data[stmt.run.table][i],
                                             stmt.run.columns[k])]]]]
      [] stmt.run.kind = "cross" ->
           IF ~table_exists(stmt.run.table) \/ ~table_exists(stmt.run.other)
           THEN [ok |-> FALSE, error |-> <<"relation does not exist">>, rows |-> <<>>]
           ELSE LET left == table_data[stmt.run.table]
                    right == table_data[stmt.run.other]
                IN  [ok |-> TRUE, error |-> <<>>,
                     rows |-> [n \in 1..(Len(left) * Len(right)) |->
                                [k \in DOMAIN stmt.run.columns |->
                                   [col |-> stmt.run.columns[k],
                                    val |-> Cell(left[((n - 1) \div Len(right)) + 1]
                                                 \o right[((n - 1) % Len(right)) + 1],
                                                 stmt.run.columns[k])]]]]
      [] stmt.run.kind = "const" ->
           [ok |-> TRUE, error |-> <<>>,
            rows |-> << <<[col |-> cConst, val |-> <<"1">>]>> >>]
      [] OTHER ->
           [ok |-> FALSE, error |-> <<"no results to fetch">>, rows |-> <<>>]

\* ------------------------------------------------------------- AccessManager
\* AccessManager.get_user: the rows of system_users with that username
get_user(username) == {u \in system_users : SqlEq(u.username, username)}

\* the WHERE clause shared by grant_access's check_query and revoke_access's
\* DELETE
MatchesTuple(r, user_id, table_name, column_name) ==
    /\ r.user_id = user_id
    /\ SqlEq(r.table_name, table_name)
    /\ (SqlEq(r.column_name, column_name) \/ (r.column_name = None /\ column_name = None))

\* check_access with the names compared by prefix (LIKE) instead of =
check_access_like(username, table_name, column_name) ==
    LET user == get_user(username)
    IN  IF user = {} THEN FALSE
        ELSE LET u == CHOOSE r \in user : TRUE
             IN  IF u.role = "admin" THEN TRUE
                 ELSE \/ /\ Truthy(column_name)
                         /\ \E r \in access_control :
                              /\ r.user_id = u.user_id
                              /\ IsPrefix(r.table_name, table_name)
                              /\ r.column_name # None
                              /\ IsPrefix(r.column_name, column_name)
                      \/ \E r \in access_control :
                              /\ r.user_id = u.user_id
                              /\ IsPrefix(r.table_name, table_name)
                              /\ r.column_name = None

\* check_access whose table-level query forgets "column_name IS NULL"
check_access_any_row(username, table_name, column_name) ==
    LET user == get_user(username)
    IN  IF user = {} THEN FALSE
        ELSE LET u == CHOOSE r \in user : TRUE
             IN  IF u.role = "admin" THEN TRUE
                 ELSE \E r \in access_control :
                          r.user_id = u.user_id /\ SqlEq(r.table_name, table_name)

\* check_access's query for a column-specific grant
ColumnGrantExists(user_id, table_name, column_name) ==
    \E r \in access_control : /\ r.user_id = user_id
                              /\ SqlEq(r.table_name, table_name)
                              /\ SqlEq(r.column_name, column_name)

\* the table-level query without its "column_name IS NULL"
TableGrantExists_any_row(user_id, table_name) ==
    \E r \in access_control : r.user_id = user_id /\ SqlEq(r.table_name, table_name)

\* check_access's query for a table-level grant
TableGrantExists(user_id, table_name) ==
    \E r \in access_control : /\ r.user_id = user_id
                              /\ SqlEq(r.table_name, table_name)
                              /\ r.column_name = None

\* AccessManager.check_access
check_access(username, table_name, column_name) ==
    LET user == get_user(username)
    IN  IF user = {} THEN FALSE
        ELSE LET u == CHOOSE r \in user : TRUE
             IN  IF u.role = "admin" THEN TRUE
                 ELSE \/ /\ Truthy(column_name)
                         /\ ColumnGrantExists(u.user_id, table_name, column_name)
                      \/ TableGrantExists(u.user_id, table_name)

\* ------------------------------------------------------------- EncryptionManager
\* MASTER_KEY_PASSPHRASE of the process environment
MasterPassphrase == <<"passphrase">>

\* EncryptionManager._derive_key_from_passphrase (PBKDF2): a key determined
\* by the passphrase and the salt
derive_key_from_passphrase(salt) == [kdf |-> MasterPassphrase, salt |-> salt]

\* Fernet(key).encrypt(text): a token only that key opens, ending in its MAC
FernetEncrypt(key, text) == <<"gAAAAA", ToString(key)>> \o text \o <<"h", "m", "a", "c">>

\* Fernet(key).decrypt(token): ok = FALSE stands for InvalidToken
FernetDecrypt(key, token) ==
    IF Len(token) >= 6 /\ token[1] = "gAAAAA" /\ token[2] = ToString(key)
    THEN [ok |-> TRUE, value |-> SubSeq(token, 3, Len(token) - 4)]
    ELSE [ok |-> FALSE, value |-> <<>>]

\* base64.b64encode(...).decode()
B64Encode(text) == <<"b64:">> \o text

\* base64.b64decode: ok = FALSE stands for binascii.Error or for bytes that
\* are no token
B64Decode(text) ==
    IF text # <<>> /\ Head(text) = "b64:" THEN [ok |-> TRUE, value |-> Tail(text)]
    ELSE [ok |-> FALSE, value |-> <<>>]

\* EncryptionManager.get_column_key: ok = FALSE stands for the ValueError
\* (no record) or InvalidToken (the wrap does not open)
get_column_key(table_name, column_name) ==
    LET result == {k \in master_keys : SqlEq(k.table_name, table_name)
                                       /\ SqlEq(k.column_name, column_name)}
    IN  IF result = {} THEN [ok |-> FALSE, key |-> 0]
        ELSE LET key_data == (CHOOSE k \in result : TRUE).encrypted_key
                 master_key == derive_key_from_passphrase(key_data.salt)
             IN  IF key_data.wrapped.by = master_key
                 THEN [ok |-> TRUE, key |-> key_data.wrapped.key]
                 ELSE [ok |-> FALSE, key |-> 0]

\* EncryptionManager.encrypt_value on a text
encrypt_value(value, table_name, column_name) ==
    IF value = None THEN [ok |-> TRUE, value |-> None]
    ELSE LET column_key == get_column_key(table_name, column_name)
         IN  IF ~column_key.ok THEN [ok |-> FALSE, value |-> <<>>]
             ELSE [ok |-> TRUE, value |-> B64Encode(FernetEncrypt(column_key.key, value))]

\* decrypt_value that hands the base64 text itself to Fernet
decrypt_value_no_b64decode(encrypted_value, table_name, column_name) ==
    IF encrypted_value = None THEN [ok |-> TRUE, value |-> None]
    ELSE LET column_key == get_column_key(table_name, column_name)
         IN  IF ~column_key.ok THEN [ok |-> FALSE, value |-> <<>>]
             ELSE FernetDecrypt(column_key.key, encrypted_value)

\* EncryptionManager.decrypt_value
decrypt_value(encrypted_value, table_name, column_name) ==
    IF encrypted_value = None THEN [ok |-> TRUE, value |-> None]
    ELSE LET column_key == get_column_key(table_name, column_name)
             encrypted == B64Decode(encrypted_value)
         IN  IF ~column_key.ok \/ ~encrypted.ok THEN [ok |-> FALSE, value |-> <<>>]
             ELSE FernetDecrypt(column_key.key, encrypted.value)

Stars(n) == [i \in 1..n |-> "*"]

\* mask_value whose 'full' mode keeps the last four characters as well
mask_value_always_partial(value, mask_type) ==
    IF value = None THEN None
    ELSE IF Len(value) <= 4 THEN Stars(Len(value))
    ELSE Stars(Len(value) - 4) \o SubSeq(value, Len(value) - 3, Len(value))

\* mask_value whose 'partial' mode masks the whole value only below length 4
mask_value_short_below_4(value, mask_type) ==
    IF value = None THEN None
    ELSE IF mask_type = "full" THEN Stars(Len(value))
    ELSE IF mask_type = "partial"
    THEN IF Len(value) < 4 THEN Stars(Len(value))
         ELSE Stars(Len(value) - 4) \o SubSeq(value, Len(value) - 3, Len(value))
    ELSE value

\* EncryptionManager.mask_value
mask_value(value, mask_type) ==
    IF value = None THEN None
    ELSE IF mask_type = "full" THEN Stars(Len(value))
    ELSE IF mask_type = "partial"
    THEN IF Len(value) <= 4 THEN Stars(Len(value))
         ELSE Stars(Len(value) - 4) \o SubSeq(value, Len(value) - 3, Len(value))
    ELSE value

\* is_column_encrypted that matches the column name in any table
is_column_encrypted_any_table(table_name, column_name) ==
    \E k \in master_keys : SqlEq(k.column_name, column_name)

\* EncryptionManager.is_column_encrypted
is_column_encrypted(table_name, column_name) ==
    \E k \in master_keys : SqlEq(k.table_name, table_name)
                           /\ SqlEq(k.column_name, column_name)

\* ------------------------------------------------------------- QueryEngine
\* a loop over the tables that stops at the first problem
TableDenials_first_only(username, tables) ==
    LET bad == {i \in DOMAIN tables :
                  ~table_exists(tables[i]) \/ ~check_access(username, tables[i], None)}
        i == CHOOSE k \in bad : \A j \in bad : k <= j
    IN  IF bad = {} THEN <<>>
        ELSE IF ~table_exists(tables[i])
        THEN << <<"table '">> \o tables[i] \o <<"' does not exist">> >>
        ELSE << <<"no access to table '">> \o tables[i] \o <<"'">> >>

\* the denial items of validate_permissions' loop over the tables
TableDenials(username, tables) ==
    Concat([i \in DOMAIN tables |->
              IF ~table_exists(tables[i])
              THEN << <<"table '">> \o tables[i] \o <<"' does not exist">> >>
              ELSE IF ~check_access(username, tables[i], None)
              THEN << <<"no access to table '">> \o tables[i] \o <<"'">> >>
              ELSE <<>>])

\* the loop over tables x columns, each column checked in the tables that
\* have it only
ColumnDenials_own_table(username, tables, columns) ==
    IF columns # <<>> /\ STAR \notin Range(columns)
    THEN Concat([i \in DOMAIN tables |->
           Concat([j \in DOMAIN columns |->
              IF /\ columns[j] \in Range(get_table_columns(tables[i]))
                 /\ ~check_access(username, tables[i], columns[j])
              THEN << <<"no access to column '">> \o tables[i] \o <<".">>
                      \o columns[j] \o <<"'">> >>
              ELSE <<>>])])
    ELSE <<>>

\* the denial items of validate_permissions' loop over tables x columns
ColumnDenials(username, tables, columns) ==
    IF columns # <<>> /\ STAR \notin Range(columns)
    THEN Concat([i \in DOMAIN tables |->
           Concat([j \in DOMAIN columns |->
              IF ~check_access(username, tables[i], columns[j])
              THEN << <<"no access to column '">> \o tables[i] \o <<".">>
                      \o columns[j] \o <<"'">> >>
              ELSE <<>>])])
    ELSE <<>>

\* validate_permissions' loops, for a principal that is known and no admin
ValidateGrants(username, tables, columns) ==
    LET denied_items == TableDenials(username, tables)
                        \o ColumnDenials(username, tables, columns)
        calls == {"get_user"}
                 \cup (IF tables # <<>> THEN {"table_exists"} ELSE {})
                 \cup (IF \/ \E i \in DOMAIN tables : table_exists(tables[i])
                          \/ (tables # <<>> /\ columns # <<>>
                              /\ STAR \notin Range(columns))
                       THEN {"check_access"} ELSE {})
    IN  IF denied_items # <<>>
        THEN [allowed |-> FALSE, reason |-> <<"insufficient permissions">>,
              denied_items |-> denied_items, calls |-> calls]
        ELSE [allowed |-> TRUE, reason |-> <<"access granted">>,
              denied_items |-> <<>>, calls |-> calls]

\* validate_permissions without the admin branch
validate_permissions_no_override(username, tables, columns) ==
    IF get_user(username) = {}
    THEN [allowed |-> FALSE,
          reason |-> <<"user '">> \o username \o <<"' does not exist">>,
          denied_items |-> <<>>, calls |-> {"get_user"}]
    ELSE ValidateGrants(username, tables, columns)

\* validate_permissions without the early return for an unknown user
validate_permissions_no_user_check(username, tables, columns) ==
    IF \E u \in get_user(username) : u.role = "admin"
    THEN [allowed |-> TRUE, reason |-> <<"admin has full access">>,
          denied_items |-> <<>>, calls |-> {"get_user"}]
    ELSE ValidateGrants(username, tables, columns)

\* QueryEngine.validate_permissions.  calls: the collaborators' methods the
\* evaluation invoked
validate_permissions(username, tables, columns) ==
    LET user == get_user(username)
    IN  IF user = {}
        THEN [allowed |-> FALSE,
              reason |-> <<"user '">> \o username \o <<"' does not exist">>,
              denied_items |-> <<>>, calls |-> {"get_user"}]
        ELSE IF (CHOOSE u \in user : TRUE).role = "admin"
        THEN [allowed |-> TRUE, reason |-> <<"admin has full access">>,
              denied_items |-> <<>>, calls |-> {"get_user"}]
        ELSE ValidateGrants(username, tables, columns)

\* the positions of the referenced tables for which the column is secured
EncryptedIn(tables, col_name) ==
    {i \in DOMAIN tables : is_column_encrypted(tables[i], col_name)}

FirstOf(positions) == CHOOSE i \in positions : \A j \in positions : i <= j

\* a failed decrypt_value that leaves the cell as stored
Decrypted_as_stored(value, table, col_name) ==
    LET d == decrypt_value(value, table, col_name)
    IN  IF d.ok THEN d.value ELSE value

\* execute_query's try around decrypt_value: any failure gives the sentinel
Decrypted(value, table, col_name) ==
    LET d == decrypt_value(value, table, col_name)
    IN  IF d.ok THEN d.value ELSE <<"[decryption error]">>

\* the loop's body with a per-cell check that accepts the column's own
\* grant only
TransformCell_column_grant_only(username, tables, col_name, value) ==
    LET enc == EncryptedIn(tables, col_name)
    IN  IF enc = {} THEN value
        ELSE LET table == tables[FirstOf(enc)]
             IN  IF \E u \in get_user(username) :
                        \/ u.role = "admin"
                        \/ ColumnGrantExists(u.user_id, table, col_name)
                 THEN Decrypted(value, table, col_name)
                 ELSE mask_value(value, "partial")

\* the body of execute_query's loop over one cell: the first referenced
\* table for which the column is secured decides; decrypt for a principal
\* with access, mask for one without
TransformCell(username, tables, col_name, value) ==
    LET enc == EncryptedIn(tables, col_name)
    IN  IF enc = {} THEN value
        ELSE LET table == tables[FirstOf(enc)]
             IN  IF check_access(username, table, col_name)
                 THEN Decrypted(value, table, col_name)
                 ELSE mask_value(value, "partial")

\* the loop over the fetched rows, last row first
TransformRows_reversed(username, tables, results) ==
    LET column_names == Keys(results[1])
    IN  [i \in DOMAIN results |->
          [k \in DOMAIN column_names |->
            [col |-> column_names[k],
             val |-> TransformCell(username, tables, column_names[k],
                                   Cell(results[Len(results) + 1 - i],
                                        column_names[k]))]]]

\* execute_query's loop over the fetched rows
TransformRows(username, tables, results) ==
    LET column_names == Keys(results[1])
    IN  [i \in DOMAIN results |->
          [k \in DOMAIN column_names |->
            [col |-> column_names[k],
             val |-> TransformCell(username, tables, column_names[k],
                                   Cell(results[i], column_names[k]))]]]

NoValidation ==
    [allowed |-> FALSE, reason |-> <<>>, denied_items |-> <<>>, calls |-> {}]

\* a result dict of execute_query; has_denied_items: the dict has the key
Result(success, data, message, columns, has_denied_items, denied_items) ==
    [success |-> success, data |-> data, message |-> message, columns |-> columns,
     has_denied_items |-> has_denied_items, denied_items |-> denied_items]

\* the denial execute_query returns without its denied_items
DeniedResult_no_items(validation) ==
    Result(FALSE, <<>>, validation.reason, <<>>, FALSE, <<>>)

\* the denial execute_query returns when validation does not allow
DeniedResult(validation) ==
    Result(FALSE, <<>>, validation.reason, <<>>, TRUE, validation.denied_items)

\* the three returns of execute_query after the statement was executed
ExecutionFailed(error) ==
    Result(FALSE, <<>>, <<"query execution failed: ">> \o error, <<>>, FALSE, <<>>)

NoResults ==
    Result(TRUE, <<>>, <<"query executed successfully, no results">>, <<>>, FALSE, <<>>)

RowsReturned(data, column_names) ==
    Result(TRUE, data,
           <<"query executed successfully, ", ToString(Len(data)), " rows returned">>,
           column_names, FALSE, <<>>)

\* QueryEngine.execute_query: what the call returns (result), with what it
\* did on the way: the references it extracted, the validation it obtained,
\* how often it passed the statement to the Datastore (executed) and the rows
\* the Datastore returned (raw)
execute_query(username, stmt) ==
    LET parsed == parse_query(stmt)
        tables == parsed.tables
        columns == IF STAR \in Range(parsed.columns)
                   THEN Concat([i \in DOMAIN tables |-> get_table_columns(tables[i])])
                   ELSE parsed.columns
        validation == validate_permissions(username, tables, columns)
        results == db_execute(stmt)
    IN  IF ~parsed.ok
        THEN [parsed |-> parsed, validation |-> NoValidation, executed |-> 0,
              raw |-> <<>>,
              result |-> Result(FALSE, <<>>, <<"failed to parse query: ">> \o parsed.error,
                                <<>>, FALSE, <<>>)]
        ELSE IF ~validation.allowed
        THEN [parsed |-> parsed, validation |-> validation, executed |-> 0,
              raw |-> <<>>,
              result |-> DeniedResult(validation)]
        ELSE IF ~results.ok
        THEN [parsed |-> parsed, validation |-> validation, executed |-> 1,
              raw |-> <<>>,
              result |-> ExecutionFailed(results.error)]
        ELSE IF results.rows = <<>>
        THEN [parsed |-> parsed, validation |-> validation, executed |-> 1,
              raw |-> <<>>,
              result |-> NoResults]
        ELSE LET data == TransformRows(username, tables, results.rows)
             IN  [parsed |-> parsed, validation |-> validation, executed |-> 1,
                  raw |-> results.rows,
                  result |-> RowsReturned(data, Keys(results.rows[1]))]

\* ------------------------------------------------------------- statements of grant_access / revoke_access
\* check_query with "column_name = %s" alone: never true for a NULL column
ExistingGrants_eq_only(user_id, table_name, column_name) ==
    {r \in access_control : /\ r.user_id = user_id
                             /\ SqlEq(r.table_name, table_name)
                             /\ SqlEq(r.column_name, column_name)}

\* check_query of grant_access
ExistingGrants(user_id, table_name, column_name) ==
    {r \in access_control : MatchesTuple(r, user_id, table_name, column_name)}

\* update_query of grant_access
UpdateGrant(access_id, access_level) ==
    {IF r.access_id = access_id
     THEN [r EXCEPT !.access_level = access_level, !.granted_at = clock]
     ELSE r : r \in access_control}

\* insert_query of grant_access: access_id from the SERIAL sequence,
\* granted_at by its default
InsertGrant(user_id, table_name, column_name, access_level) ==
    access_control \cup
      {[access_id |-> next_access_id, user_id |-> user_id, table_name |-> table_name,
        column_name |-> column_name, access_level |-> access_level,
        granted_at |-> clock]}

\* a DELETE that matches on user and table alone
DeleteGrants_whole_table(user_id, table_name, column_name) ==
    {r \in access_control : ~(r.user_id = user_id /\ SqlEq(r.table_name, table_name))}

\* the DELETE of revoke_access
DeleteGrants(user_id, table_name, column_name) ==
    {r \in access_control : ~MatchesTuple(r, user_id, table_name, column_name)}

\* ------------------------------------------------------------- actions
\* grant_access without the test of get_user's result: the row is written
\* for whatever user_id comes out (0 when there is no user)
GrantAccess_unchecked(username, table_name, column_name, access_level) ==
    LET user == get_user(username)
        user_id == IF user = {} THEN 0 ELSE (CHOOSE u \in user : TRUE).user_id
        existing == ExistingGrants(user_id, table_name, column_name)
    IN  /\ last' = [op |-> "grant_access", username |-> username,
                    table_name |-> table_name, column_name |-> column_name,
                    access_level |-> access_level, existed |-> existing # {}]
        /\ IF existing # {}
           THEN /\ \E e \in existing :
                     access_control' = UpdateGrant(e.access_id, access_level)
                /\ UNCHANGED next_access_id
           ELSE /\ access_control' = InsertGrant(user_id, table_name,
                                                 column_name, access_level)
                /\ next_access_id' = next_access_id + 1

\* AccessManager.grant_access, run to completion
GrantAccess(username, table_name, column_name, access_level) ==
    LET user == get_user(username)
        call == [op |-> "grant_access", username |-> username,
                 table_name |-> table_name, column_name |-> column_name,
                 access_level |-> access_level, existed |-> FALSE]
    IN  IF user = {}
        THEN /\ last' = [call EXCEPT !.op = "grant_access raised ValueError"]
             /\ UNCHANGED <<access_control, next_access_id>>
        ELSE LET user_id == (CHOOSE u \in user : TRUE).user_id
                 existing == ExistingGrants(user_id, table_name, column_name)
             IN  /\ last' = [call EXCEPT !.existed = existing # {}]
                 /\ IF existing # {}
                    THEN /\ \E e \in existing :
                              access_control' = UpdateGrant(e.access_id, access_level)
                         /\ UNCHANGED next_access_id
                    ELSE /\ access_control' = InsertGrant(user_id, table_name,
                                                          column_name, access_level)
                         /\ next_access_id' = next_access_id + 1

\* AccessManager.revoke_access
RevokeAccess(username, table_name, column_name) ==
    LET user == get_user(username)
        call == [op |-> "revoke_access", username |-> username,
                 table_name |-> table_name, column_name |-> column_name,
                 removed |-> 0]
    IN  IF user = {}
        THEN /\ last' = [call EXCEPT !.op = "revoke_access raised ValueError"]
             /\ UNCHANGED access_control
        ELSE /\ access_control' = DeleteGrants((CHOOSE u \in user : TRUE).user_id,
                                               table_name, column_name)
             /\ last' = [call EXCEPT !.removed = Cardinality(access_control)
                                                  - Cardinality(access_control')]

\* QueryEngine.execute_query, run to completion
ExecuteQuery(username, stmt) ==
    last' = [op |-> "execute_query", username |-> username, sql |-> stmt.sql]
            @@ execute_query(username, stmt)

\* generate_column_key as a plain INSERT: the record on file stays
generate_column_key_insert_only(table_name, column_name) ==
    master_keys
    \cup {[table_name |-> table_name, column_name |-> column_name,
           encrypted_key |-> [salt |-> next_key,
                              wrapped |-> [by |-> derive_key_from_passphrase(next_key),
                                           key |-> next_key]]]}

\* EncryptionManager.generate_column_key: a fresh key, wrapped under the
\* key derived from the passphrase and a fresh salt, replaces the record
generate_column_key(table_name, column_name) ==
    {k \in master_keys : ~(k.table_name = table_name /\ k.column_name = column_name)}
    \cup {[table_name |-> table_name, column_name |-> column_name,
           encrypted_key |-> [salt |-> next_key,
                              wrapped |-> [by |-> derive_key_from_passphrase(next_key),
                                           key |-> next_key]]]}

GenerateColumnKey(table_name, column_name) ==
    /\ master_keys' = generate_column_key(table_name, column_name)
    /\ next_key' = next_key + 1
    /\ last' = [op |-> "generate_column_key", table_name |-> table_name,
                column_name |-> column_name]
    /\ UNCHANGED table_data

\* cli.secure_column: generate the key, then encrypt the column's value in
\* every row that has one
SecureColumn(table_name, column_name) ==
    /\ table_exists(table_name)
    /\ master_keys' = generate_column_key(table_name, column_name)
    /\ next_key' = next_key + 1
    /\ table_data' = [table_data EXCEPT ![table_name] =
          [i \in DOMAIN @ |->
             [k \in DOMAIN @[i] |->
                IF @[i][k].col = column_name /\ Truthy(@[i][k].val)
                THEN [col |-> column_name,
                      val |-> B64Encode(FernetEncrypt(next_key, @[i][k].val))]
                ELSE @[i][k]]]]
    /\ last' = [op |-> "secure_column", table_name |-> table_name,
                column_name |-> column_name]

\* time passes at the Datastore
Tick ==
    /\ clock < MaxTime
    /\ clock' = clock + 1
    /\ last' = [op |-> "tick"]
    /\ UNCHANGED <<system_users, compliance_log, connection_pool, db_calls, access_control, next_access_id, master_keys,
                   next_key, table_data, lag, workers, run>>

\* ------------------------------------------------------------- the gateway, call by call
\* the processes that call grant_access concurrently
Workers == {"w1", "w2"}

\* the connections of the pool and the threads that call the Datastore
Connections == {"conn1", "conn2"}
Callers == {"t1", "t2", "t3"}

\* a thread that is in no DatabaseManager.execute_query call
NoDbCall == [pc |-> "idle", conn |-> "none", fetch |-> FALSE, kind |-> "none",
             took |-> 0, released |-> 0, rollbacks |-> 0, outcome |-> "none"]

InitUsers ==
    {[user_id |-> 1, username |-> uAdmin, role |-> "admin"],
     [user_id |-> 2, username |-> uAnalyst, role |-> "analyst"]}

\* two rows of the sample data; the second ssn is kept to four characters so
\* that both branches of mask_value's 'partial' mode occur
InitData ==
    [t \in {tEmployees, tEmp} |->
       IF t = tEmployees
       THEN << <<[col |-> cId, val |-> <<"1">>], [col |-> cName, val |-> <<"j", "o", "h", "n">>],
                 [col |-> cSsn,
                  val |-> <<"1", "2", "3", "-", "4", "5", "-", "6", "7", "8", "9">>],
                 [col |-> cSalary, val |-> <<"8", "5", "0", "0", "0">>]>>,
               <<[col |-> cId, val |-> <<"2">>], [col |-> cName, val |-> <<"j", "a", "n", "e">>],
                 [col |-> cSsn, val |-> <<"4", "3", "2", "1">>],
                 [col |-> cSalary, val |-> <<"9", "2", "0", "0", "0">>]>> >>
       ELSE <<>>]

Init ==
    /\ system_users = InitUsers
    /\ access_control = {}
    /\ next_access_id = 1
    /\ master_keys = {}
    /\ next_key = 1
    /\ table_data = InitData
    /\ clock = 1
    /\ last = [op |-> "init"]
    /\ lag = [stage |-> 0]
    /\ workers = [w \in Workers |-> [pc |-> "idle"]]
    /\ run = [pc |-> "idle"]
    /\ compliance_log = <<>>
    /\ connection_pool = [conn \in Connections |-> [used |-> FALSE, tx |-> "none"]]
    /\ db_calls = [c \in Callers |-> NoDbCall]

\* the callers' inputs
Usernames == {uAdmin, uAnalyst, uGhost}
GrantTables == {tEmployees}
GrantColumns == {None, cSalary}
SecuredColumns == {<<tEmployees, cSsn>>}

\* the SERIAL sequence and the random source are used up to their bounds
WithinBounds == next_access_id' <= MaxAccessId + 1 /\ next_key' <= MaxKey + 1

IsNonAdmin(username) == \E u \in get_user(username) : u.role # "admin"

\* history of "run, revoke, run again": stage 1 after a non-admin's allowed
\* run, stage 2 after a revocation that removed rows right after it, stage 3
\* after the identical run right after that; any other call starts over
LagAfterQuery(username, stmt) ==
    lag' = IF lag.stage = 2 /\ lag.username = username /\ lag.sql = stmt.sql
           THEN [lag EXCEPT !.stage = 3]
           ELSE IF IsNonAdmin(username) /\ last'.parsed.ok /\ last'.validation.allowed
           THEN [stage |-> 1, username |-> username, sql |-> stmt.sql]
           ELSE [stage |-> 0]

LagAfterRevoke(username, table_name, column_name) ==
    lag' = IF lag.stage = 1 /\ access_control' # access_control
           THEN [stage |-> 2, username |-> lag.username, sql |-> lag.sql,
                 revoked_from |-> username, table_name |-> table_name,
                 column_name |-> column_name]
           ELSE [stage |-> 0]

LagReset == lag' = [stage |-> 0]

Next ==
    \/ \E u \in Usernames, t \in GrantTables, c \in GrantColumns :
         /\ GrantAccess(u, t, c, "read")
         /\ LagReset
         /\ UNCHANGED <<system_users, compliance_log, connection_pool, db_calls, master_keys, next_key, table_data, clock,
                        workers, run>>
         /\ WithinBounds
    \/ \E u \in Usernames, t \in GrantTables, c \in GrantColumns :
         /\ RevokeAccess(u, t, c)
         /\ LagAfterRevoke(u, t, c)
         /\ UNCHANGED <<system_users, compliance_log, connection_pool, db_calls, next_access_id, master_keys, next_key,
                        table_data, clock, workers, run>>
    \/ \E u \in Usernames, q \in Statements :
         /\ ExecuteQuery(u, q)
         /\ LagAfterQuery(u, q)
         /\ UNCHANGED <<system_users, compliance_log, connection_pool, db_calls, access_control, next_access_id, master_keys,
                        next_key, table_data, clock,
                        workers, run>>
    \/ \E tc \in SecuredColumns :
         /\ GenerateColumnKey(tc[1], tc[2])
         /\ LagReset
         /\ UNCHANGED <<system_users, compliance_log, connection_pool, db_calls, access_control, next_access_id, clock, workers, run>>
         /\ WithinBounds
    \/ \E tc \in SecuredColumns :
         /\ SecureColumn(tc[1], tc[2])
         /\ LagReset
         /\ UNCHANGED <<system_users, compliance_log, connection_pool, db_calls, access_control, next_access_id, clock, workers, run>>
         /\ WithinBounds

Spec == Init /\ [][Next]_vars

\* ------------------------------------------------------------- grants over time
\* grant_access and revoke_access, each run to completion, with both access
\* levels and the Datastore's time passing between the calls
AccessLevels == {"read", "write"}
GrantUsers == {uAnalyst, uGhost}

NextGrants ==
    \/ \E u \in GrantUsers, t \in GrantTables, c \in GrantColumns, a \in AccessLevels :
         /\ GrantAccess(u, t, c, a)
         /\ UNCHANGED <<system_users, compliance_log, connection_pool, db_calls, master_keys, next_key, table_data, clock, lag,
                        workers, run>>
         /\ WithinBounds
    \/ \E u \in GrantUsers, t \in GrantTables, c \in GrantColumns :
         /\ RevokeAccess(u, t, c)
         /\ UNCHANGED <<system_users, compliance_log, connection_pool, db_calls, next_access_id, master_keys, next_key,
                        table_data, clock, lag, workers, run>>
    \/ Tick

SpecGrants == Init /\ [][NextGrants]_vars

\* ------------------------------------------------------------- grant_access, statement by statement
\* Each Datastore statement of grant_access is a transaction of its own
\* (DatabaseManager.execute_query commits after each); between two of them
\* the statements of another call may run.

\* get_user: the call raises ValueError for an unknown user
GrantGetUser(w, username, table_name, column_name, access_level) ==
    /\ workers[w].pc = "idle"
    /\ LET user == get_user(username)
       IN  IF user = {}
           THEN workers' = workers
           ELSE workers' = [workers EXCEPT ![w] =
                  [pc |-> "check", user_id |-> (CHOOSE u \in user : TRUE).user_id,
                   table_name |-> table_name, column_name |-> column_name,
                   access_level |-> access_level, existing |-> {}]]
    /\ UNCHANGED <<access_control, next_access_id>>

\* check_query: the access_ids of the rows of the tuple
GrantCheck(w) ==
    /\ workers[w].pc = "check"
    /\ workers' = [workers EXCEPT ![w].pc = "write",
                                  ![w].existing =
                                     {r.access_id : r \in ExistingGrants(workers[w].user_id,
                                                             workers[w].table_name,
                                                             workers[w].column_name)}]
    /\ UNCHANGED <<access_control, next_access_id>>

\* update_query on existing[0], or insert_query when the check found no row
GrantWrite(w) ==
    /\ workers[w].pc = "write"
    /\ IF workers[w].existing # {}
       THEN /\ \E id \in workers[w].existing :
                 access_control' = UpdateGrant(id, workers[w].access_level)
            /\ UNCHANGED next_access_id
       ELSE /\ access_control' = InsertGrant(workers[w].user_id, workers[w].table_name,
                                             workers[w].column_name,
                                             workers[w].access_level)
            /\ next_access_id' = next_access_id + 1
    /\ workers' = [workers EXCEPT ![w] = [pc |-> "idle"]]

ConcColumns == {None, cSalary}

NextConc ==
    \/ \E w \in Workers, c \in ConcColumns, a \in AccessLevels :
         /\ GrantGetUser(w, uAnalyst, tEmployees, c, a)
         /\ UNCHANGED <<system_users, compliance_log, connection_pool, db_calls, master_keys, next_key, table_data, clock, last,
                        lag, run>>
    \/ \E w \in Workers :
         /\ GrantCheck(w)
         /\ UNCHANGED <<system_users, compliance_log, connection_pool, db_calls, master_keys, next_key, table_data, clock, last,
                        lag, run>>
    \/ \E w \in Workers :
         /\ GrantWrite(w)
         /\ UNCHANGED <<system_users, compliance_log, connection_pool, db_calls, master_keys, next_key, table_data, clock, last,
                        lag, run>>
         /\ WithinBounds

SpecConc == Init /\ [][NextConc]_vars

\* ------------------------------------------------------------- execute_query, statement by statement
\* The steps of one execute_query call between which the statements of
\* other callers may run: the authorization, the execution of the statement,
\* and for each cell the queries of check_access (the column-specific one,
\* then the table-level one).
RunCall == [op |-> "execute_query", username |-> run.username, sql |-> run.stmt.sql]

\* parse_query and validate_permissions; a failure of either ends the call
RunAuthorize(username, stmt) ==
    /\ run.pc = "idle"
    /\ LET r == execute_query(username, stmt)
       IN  IF r.executed = 0
           THEN /\ last' = [op |-> "execute_query", username |-> username,
                            sql |-> stmt.sql] @@ r
                /\ run' = run
           ELSE /\ run' = [pc |-> "execute", username |-> username, stmt |-> stmt,
                           parsed |-> r.parsed, validation |-> r.validation,
                           rows |-> <<>>, cells |-> <<>>, table |-> None]
                /\ last' = last

\* self.db.execute_query(sql, fetch=True) and the test for no results
RunExecute ==
    /\ run.pc = "execute"
    /\ LET results == db_execute(run.stmt)
           done == [parsed |-> run.parsed, validation |-> run.validation,
                    executed |-> 1, raw |-> <<>>]
       IN  IF ~results.ok
           THEN /\ last' = RunCall @@ done @@ [result |-> ExecutionFailed(results.error)]
                /\ run' = [pc |-> "idle"]
           ELSE IF results.rows = <<>>
           THEN /\ last' = RunCall @@ done @@ [result |-> NoResults]
                /\ run' = [pc |-> "idle"]
           ELSE /\ run' = [run EXCEPT !.pc = "cell", !.rows = results.rows]
                /\ last' = last

\* the cell the loops of execute_query are at
CellRow == (Len(run.cells) \div Len(run.rows[1])) + 1
CellColumn == Keys(run.rows[1])[(Len(run.cells) % Len(run.rows[1])) + 1]
CellValue == Cell(run.rows[CellRow], CellColumn)

\* decrypted_row[col_name] = value, and on to the next cell
CellDone(value) ==
    run' = [run EXCEPT !.cells = Append(@, [col |-> CellColumn, val |-> value]),
                       !.table = None,
                       !.pc = IF Len(run.cells) + 1 = Len(run.rows) * Len(run.rows[1])
                              THEN "return" ELSE "cell"]

\* is_column_encrypted over the tables, then check_access up to its
\* column-specific query
RunCellColumn ==
    /\ run.pc = "cell"
    /\ LET enc == EncryptedIn(run.parsed.tables, CellColumn)
           table == run.parsed.tables[FirstOf(enc)]
           user == get_user(run.username)
           u == CHOOSE r \in user : TRUE
       IN  IF enc = {} THEN CellDone(CellValue)
           ELSE IF user = {} THEN CellDone(mask_value(CellValue, "partial"))
           ELSE IF u.role = "admin" THEN CellDone(Decrypted(CellValue, table, CellColumn))
           ELSE IF Truthy(CellColumn) /\ ColumnGrantExists(u.user_id, table, CellColumn)
           THEN CellDone(Decrypted(CellValue, table, CellColumn))
           ELSE run' = [run EXCEPT !.pc = "cell_table", !.table = table]
    /\ last' = last

\* check_access's table-level query, then decrypt_value or mask_value
RunCellTable ==
    /\ run.pc = "cell_table"
    /\ LET u == CHOOSE r \in get_user(run.username) : TRUE
       IN  IF TableGrantExists(u.user_id, run.table)
           THEN CellDone(Decrypted(CellValue, run.table, CellColumn))
           ELSE CellDone(mask_value(CellValue, "partial"))
    /\ last' = last

\* the rows of the result, from the cells in the order the loops made them
RunData ==
    [i \in DOMAIN run.rows |->
       [k \in DOMAIN run.rows[1] |-> run.cells[(i - 1) * Len(run.rows[1]) + k]]]

\* the return of execute_query after its loops
RunReturn ==
    /\ run.pc = "return"
    /\ last' = RunCall @@ [parsed |-> run.parsed, validation |-> run.validation,
                           executed |-> 1, raw |-> run.rows,
                           result |-> RowsReturned(RunData, Keys(run.rows[1]))]
    /\ run' = [pc |-> "idle"]

RunUsers == {uAdmin, uAnalyst}
RunStatements == {sqlNameSsn, sqlDrop}
RunGrantColumns == {None, cSsn}

NextRun ==
    \/ \E u \in RunUsers, q \in RunStatements :
         /\ RunAuthorize(u, q)
         /\ UNCHANGED <<system_users, compliance_log, connection_pool, db_calls, access_control, next_access_id, master_keys,
                        next_key, table_data, clock, lag, workers>>
    \/ /\ RunExecute
       /\ UNCHANGED <<system_users, compliance_log, connection_pool, db_calls, access_control, next_access_id, master_keys,
                      next_key, table_data, clock, lag, workers>>
    \/ /\ RunCellColumn
       /\ UNCHANGED <<system_users, compliance_log, connection_pool, db_calls, access_control, next_access_id, master_keys,
                      next_key, table_data, clock, lag, workers>>
    \/ /\ RunCellTable
       /\ UNCHANGED <<system_users, compliance_log, connection_pool, db_calls, access_control, next_access_id, master_keys,
                      next_key, table_data, clock, lag, workers>>
    \/ /\ RunReturn
       /\ UNCHANGED <<system_users, compliance_log, connection_pool, db_calls, access_control, next_access_id, master_keys,
                      next_key, table_data, clock, lag, workers>>
    \/ \E c \in RunGrantColumns :
         /\ GrantAccess(uAnalyst, tEmployees, c, "read")
         /\ UNCHANGED <<system_users, compliance_log, connection_pool, db_calls, master_keys, next_key, table_data, clock, lag,
                        workers, run>>
         /\ WithinBounds
    \/ \E c \in RunGrantColumns :
         /\ RevokeAccess(uAnalyst, tEmployees, c)
         /\ UNCHANGED <<system_users, compliance_log, connection_pool, db_calls, next_access_id, master_keys, next_key,
                        table_data, clock, lag, workers, run>>
    \/ \E tc \in SecuredColumns :
         /\ GenerateColumnKey(tc[1], tc[2])
         /\ UNCHANGED <<system_users, compliance_log, connection_pool, db_calls, access_control, next_access_id, clock, lag,
                        workers, run>>
         /\ WithinBounds
    \/ \E tc \in SecuredColumns :
         /\ SecureColumn(tc[1], tc[2])
         /\ UNCHANGED <<system_users, compliance_log, connection_pool, db_calls, access_control, next_access_id, clock, lag,
                        workers, run>>
         /\ WithinBounds

SpecRun == Init /\ [][NextRun]_vars

\* ------------------------------------------------------------- the cipher and the keys
\* The calls of EncryptionManager one after the other, columns secured and
\* secured again, and the queries that read them.  A call that only reads
\* leaves its outcome in last: ok = FALSE stands for the exception raised.
EncryptValue(value, table_name, column_name) ==
    /\ last' = [op |-> "encrypt_value", plaintext |-> value, table_name |-> table_name,
                column_name |-> column_name]
               @@ encrypt_value(value, table_name, column_name)
    /\ UNCHANGED <<master_keys, next_key, table_data>>

DecryptValue(encrypted_value, table_name, column_name) ==
    /\ last' = [op |-> "decrypt_value", encrypted_value |-> encrypted_value,
                table_name |-> table_name, column_name |-> column_name]
               @@ decrypt_value(encrypted_value, table_name, column_name)
    /\ UNCHANGED <<master_keys, next_key, table_data>>

MaskValue(value, mask_type) ==
    /\ last' = [op |-> "mask_value", value |-> value, mask_type |-> mask_type,
                result |-> mask_value(value, mask_type)]
    /\ UNCHANGED <<master_keys, next_key, table_data>>

GetColumnKey(table_name, column_name) ==
    /\ last' = [op |-> "get_column_key", table_name |-> table_name,
                column_name |-> column_name]
               @@ get_column_key(table_name, column_name)
    /\ UNCHANGED <<master_keys, next_key, table_data>>

IsColumnEncrypted(table_name, column_name) ==
    /\ last' = [op |-> "is_column_encrypted", table_name |-> table_name,
                column_name |-> column_name,
                result |-> is_column_encrypted(table_name, column_name)]
    /\ UNCHANGED <<master_keys, next_key, table_data>>

sqlSsnSalary ==
    [sql |-> "SELECT ssn, salary FROM employees",
     parsed |-> << <<Tok("DML", <<"SELECT">>), WS,
                     IdentList(<<Ident(cSsn), Comma, WS, Ident(cSalary)>>), WS,
                     Tok("Keyword", <<"FROM">>), WS, Ident(tEmployees)>> >>,
     run |-> [kind |-> "select", table |-> tEmployees, columns |-> <<cSsn, cSalary>>]]
sqlEmpNames ==
    [sql |-> "SELECT name FROM emp",
     parsed |-> << <<Tok("DML", <<"SELECT">>), WS, Ident(cName), WS,
                     Tok("Keyword", <<"FROM">>), WS, Ident(tEmp)>> >>,
     run |-> [kind |-> "select", table |-> tEmp, columns |-> <<cName>>]]

\* the callers' inputs
KeyColumns == {<<tEmployees, cSsn>>, <<tEmployees, cSalary>>}
KeyStatements == {sqlNameSsn, sqlSsnSalary, sqlOne, sqlEmpNames}
Strings ==
    {<<>>, <<"*">>, <<"a", "b", "c", "d">>, <<"a", "*", "c", "d", "e">>,
     <<"1", "2", "3", "-", "4", "5", "-", "6", "7", "8", "9">>}
MaskTypes == {"partial", "full"}

\* what a caller hands to decrypt_value: NULL, a stored cell, what
\* encrypt_value has just returned, or text that is no ciphertext
Ciphertexts ==
    {None, <<"b64:", "x">>}
    \cup {table_data[tEmployees][i][k].val :
            i \in DOMAIN table_data[tEmployees], k \in {3}}
    \cup (IF last.op = "encrypt_value" /\ last.ok THEN {last.value} ELSE {})

NextKeys ==
    \/ \E tc \in KeyColumns :
         /\ GenerateColumnKey(tc[1], tc[2])
         /\ UNCHANGED <<system_users, compliance_log, connection_pool, db_calls, access_control, next_access_id, clock, lag,
                        workers, run>>
         /\ next_key' <= MaxRekey + 1
    \/ \E tc \in KeyColumns :
         /\ SecureColumn(tc[1], tc[2])
         /\ UNCHANGED <<system_users, compliance_log, connection_pool, db_calls, access_control, next_access_id, clock, lag,
                        workers, run>>
         /\ next_key' <= MaxRekey + 1
    \/ \E u \in RunUsers, q \in KeyStatements :
         /\ ExecuteQuery(u, q)
         /\ UNCHANGED <<system_users, compliance_log, connection_pool, db_calls, access_control, next_access_id, master_keys,
                        next_key, table_data, clock, lag, workers, run>>
    \/ \E value \in Strings \cup {None}, tc \in KeyColumns :
         /\ EncryptValue(value, tc[1], tc[2])
         /\ UNCHANGED <<system_users, compliance_log, connection_pool, db_calls, access_control, next_access_id, clock, lag,
                        workers, run>>
    \/ \E x \in Ciphertexts, tc \in KeyColumns :
         /\ DecryptValue(x, tc[1], tc[2])
         /\ UNCHANGED <<system_users, compliance_log, connection_pool, db_calls, access_control, next_access_id, clock, lag,
                        workers, run>>
    \/ \E value \in Strings \cup {None}, m \in MaskTypes :
         /\ MaskValue(value, m)
         /\ UNCHANGED <<system_users, compliance_log, connection_pool, db_calls, access_control, next_access_id, clock, lag,
                        workers, run>>
    \/ \E tc \in KeyColumns :
         /\ GetColumnKey(tc[1], tc[2])
         /\ UNCHANGED <<system_users, compliance_log, connection_pool, db_calls, access_control, next_access_id, clock, lag,
                        workers, run>>
    \/ \E tc \in KeyColumns :
         /\ IsColumnEncrypted(tc[1], tc[2])
         /\ UNCHANGED <<system_users, compliance_log, connection_pool, db_calls, access_control, next_access_id, clock, lag,
                        workers, run>>

SpecKeys == Init /\ [][NextKeys]_vars

\* ------------------------------------------------------------- the command line
\* cli.execute: the query, then its entry in compliance_log.
sqlStar ==
    [sql |-> "SELECT * FROM employees",
     parsed |-> << <<Tok("DML", <<"SELECT">>), WS, Tok("Wildcard", STAR), WS,
                     Tok("Keyword", <<"FROM">>), WS, Ident(tEmployees)>> >>,
     run |-> [kind |-> "select", table |-> tEmployees,
              columns |-> <<cId, cName, cSsn, cSalary>>]]
sqlTwoTables ==
    [sql |-> "SELECT salary, employee_id FROM employees, emp",
     parsed |-> << <<Tok("DML", <<"SELECT">>), WS,
                     IdentList(<<Ident(cSalary), Comma, WS, Ident(cId)>>), WS,
                     Tok("Keyword", <<"FROM">>), WS,
                     IdentList(<<Ident(tEmployees), Comma, WS, Ident(tEmp)>>)>> >>,
     run |-> [kind |-> "cross", table |-> tEmployees, other |-> tEmp,
              columns |-> <<cSalary, cId>>]]

\* ', '.join(names) if names else None
JoinOrNone(names) ==
    IF names = <<>> THEN None
    ELSE Concat([i \in DOMAIN names |->
                   IF i = 1 THEN names[i] ELSE <<", ">> \o names[i]])

\* AuditLogger.log_query: the row it inserts (user_id 0: NULL, for a username
\* that has no row in system_users)
log_query(username, query, tables, columns, status, reason) ==
    LET user_result == get_user(username)
    IN  Append(compliance_log,
               [user_id |-> IF user_result = {} THEN 0
                            ELSE (CHOOSE u \in user_result : TRUE).user_id,
                username |-> username, action |-> "query", query_text |-> query,
                tables_accessed |-> JoinOrNone(tables),
                columns_accessed |-> JoinOrNone(columns),
                status |-> status, reason |-> reason])

\* QueryEngine.parse_query, called on its own
ParseQuery(stmt) ==
    /\ last' = [op |-> "parse_query", sql |-> stmt.sql] @@ parse_query(stmt)
    /\ UNCHANGED compliance_log

\* cli.execute: execute_query, parse_query once more for the log, log_query;
\* an exception anywhere ends the command with a message on the terminal
CliExecute(username, stmt) ==
    LET r == execute_query(username, stmt)
        parsed == parse_query(stmt)
        call == [op |-> "cli execute", username |-> username, sql |-> stmt.sql] @@ r
    IN  IF ~parsed.ok
        THEN /\ last' = call @@ [echo |-> <<"query failed: ">> \o parsed.error]
             /\ UNCHANGED compliance_log
        ELSE /\ compliance_log' =
                  log_query(username, stmt.sql, parsed.tables, parsed.columns,
                            IF r.result.success THEN "success" ELSE "denied",
                            IF ~r.result.success THEN r.result.message ELSE None)
             /\ last' = call @@ [echo |-> r.result.message]

\* the callers' inputs
CliStatements == {sqlNameSsn, sqlStar, sqlTwoTables, sqlMissing, sqlEmpty}

NextCli ==
    \/ \E q \in CliStatements :
         /\ ParseQuery(q)
         /\ UNCHANGED <<system_users, connection_pool, db_calls, access_control,
                        next_access_id, master_keys, next_key, table_data, clock, lag,
                        workers, run>>
    \/ \E u \in Usernames, q \in CliStatements :
         /\ CliExecute(u, q)
         /\ UNCHANGED <<system_users, connection_pool, db_calls, access_control,
                        next_access_id, master_keys, next_key, table_data, clock, lag,
                        workers, run>>
         /\ Len(compliance_log') <= MaxLog
    \/ /\ GrantAccess(uAnalyst, tEmployees, None, "read")
       /\ UNCHANGED <<system_users, compliance_log, connection_pool, db_calls,
                      master_keys, next_key, table_data, clock, lag, workers, run>>
       /\ WithinBounds
    \/ /\ RevokeAccess(uAnalyst, tEmployees, None)
       /\ UNCHANGED <<system_users, compliance_log, connection_pool, db_calls,
                      next_access_id, master_keys, next_key, table_data, clock, lag,
                      workers, run>>

SpecCli == Init /\ [][NextCli]_vars

\* ------------------------------------------------------------- authorization on its own
\* validate_permissions called with reference lists of one and of several
\* tables, between grants and revocations on both tables
ValidatePermissions(username, tables, columns) ==
    last' = [op |-> "validate_permissions", username |-> username,
             tables |-> tables, columns |-> columns]
            @@ validate_permissions(username, tables, columns)

\* the callers' inputs
AuthTables == {tEmployees, tEmp}
AuthTableLists == {<<tEmployees>>, <<tEmployees, tEmp>>, <<tNosuch, tEmployees>>}
AuthColumnLists == {<<>>, <<cSalary>>, <<cName, cSalary>>}

NextAuth ==
    \/ \E t \in AuthTables, c \in GrantColumns :
         /\ GrantAccess(uAnalyst, t, c, "read")
         /\ UNCHANGED <<system_users, compliance_log, connection_pool, db_calls,
                        master_keys, next_key, table_data, clock, lag, workers, run>>
         /\ WithinBounds
    \/ \E t \in AuthTables, c \in GrantColumns :
         /\ RevokeAccess(uAnalyst, t, c)
         /\ UNCHANGED <<system_users, compliance_log, connection_pool, db_calls,
                        next_access_id, master_keys, next_key, table_data, clock, lag,
                        workers, run>>
    \/ \E u \in Usernames, ts \in AuthTableLists, cs \in AuthColumnLists :
         /\ ValidatePermissions(u, ts, cs)
         /\ UNCHANGED <<system_users, compliance_log, connection_pool, db_calls,
                        access_control, next_access_id, master_keys, next_key,
                        table_data, clock, lag, workers, run>>

SpecAuth == Init /\ [][NextAuth]_vars

\* ------------------------------------------------------------- Datastore failures
\* execute_query while the Datastore fails every statement of one of the
\* collaborators' methods (none: no failure).  DatabaseManager.execute_query
\* rolls back and re-raises; what becomes of the exception depends on where
\* execute_query called from.
Faults ==
    {"none", "get_table_schema", "get_user", "table_exists", "check_access",
     "execute_query", "is_column_encrypted", "get_column_key"}

\* the call ended with an exception: there is no result dict
RaisedNoResult == Result(FALSE, <<>>, <<>>, <<>>, FALSE, <<>>)

\* the loop's body when get_column_key's statement fails: decrypt_value
\* raises inside the inner try
TransformCellKeyFailure(username, tables, col_name, value) ==
    LET enc == EncryptedIn(tables, col_name)
    IN  IF enc = {} THEN value
        ELSE IF check_access(username, tables[FirstOf(enc)], col_name)
        THEN IF value = None THEN None ELSE <<"[decryption error]">>
        ELSE mask_value(value, "partial")

\* raised: the exception left execute_query; failed: a statement of the
\* failing method was issued during the call
execute_query_failing(username, stmt, failing) ==
    LET r == execute_query(username, stmt)
        tables == r.parsed.tables
        results == db_execute(stmt)
        out == [raised |-> TRUE, failed |-> TRUE, parsed |-> r.parsed,
                validation |-> NoValidation, executed |-> 0, raw |-> <<>>,
                result |-> RaisedNoResult]
        unaffected == [raised |-> FALSE, failed |-> FALSE] @@ r
    IN  IF ~r.parsed.ok THEN unaffected
        ELSE IF /\ failing = "get_table_schema"
                /\ STAR \in Range(r.parsed.columns) /\ tables # <<>>
        THEN out
        ELSE IF failing \in r.validation.calls
        THEN out
        ELSE IF ~r.validation.allowed THEN unaffected
        ELSE IF failing = "execute_query"
        THEN [raised |-> FALSE, failed |-> TRUE, parsed |-> r.parsed,
              validation |-> r.validation, executed |-> 1, raw |-> <<>>,
              result |-> ExecutionFailed(<<"datastore failure">>)]
        ELSE IF ~results.ok \/ results.rows = <<>> THEN unaffected
        ELSE IF failing = "is_column_encrypted" /\ tables # <<>>
        THEN [raised |-> FALSE, failed |-> TRUE, parsed |-> r.parsed,
              validation |-> r.validation, executed |-> 1, raw |-> results.rows,
              result |-> ExecutionFailed(<<"datastore failure">>)]
        ELSE IF failing = "get_column_key"
        THEN LET column_names == Keys(results.rows[1])
                 data == [i \in DOMAIN results.rows |->
                            [k \in DOMAIN column_names |->
                               [col |-> column_names[k],
                                val |-> TransformCellKeyFailure(username, tables,
                                           column_names[k],
                                           Cell(results.rows[i], column_names[k]))]]]
             IN  [raised |-> FALSE,
                  failed |-> \E i \in DOMAIN results.rows, k \in DOMAIN column_names :
                                /\ EncryptedIn(tables, column_names[k]) # {}
                                /\ Cell(results.rows[i], column_names[k]) # None
                                /\ check_access(username,
                                      tables[FirstOf(EncryptedIn(tables, column_names[k]))],
                                      column_names[k]),
                  parsed |-> r.parsed, validation |-> r.validation, executed |-> 1,
                  raw |-> results.rows,
                  result |-> RowsReturned(data, column_names)]
        ELSE unaffected

ExecuteQueryFailing(username, stmt, failing) ==
    last' = [op |-> "execute_query", username |-> username, sql |-> stmt.sql,
             failing |-> failing]
            @@ execute_query_failing(username, stmt, failing)

\* the callers' inputs
FaultStatements == {sqlNameSsn, sqlStar, sqlMissing, sqlOne}

NextFault ==
    \/ \E u \in Usernames, q \in FaultStatements, f \in Faults :
         /\ ExecuteQueryFailing(u, q, f)
         /\ UNCHANGED <<system_users, compliance_log, connection_pool, db_calls,
                        access_control, next_access_id, master_keys, next_key,
                        table_data, clock, lag, workers, run>>
    \/ /\ GrantAccess(uAnalyst, tEmployees, None, "read")
       /\ UNCHANGED <<system_users, compliance_log, connection_pool, db_calls,
                      master_keys, next_key, table_data, clock, lag, workers, run>>
       /\ WithinBounds
    \/ \E tc \in SecuredColumns :
         /\ SecureColumn(tc[1], tc[2])
         /\ UNCHANGED <<system_users, compliance_log, connection_pool, db_calls,
                        access_control, next_access_id, clock, lag, workers, run>>
         /\ WithinBounds

SpecFault == Init /\ [][NextFault]_vars

\* ------------------------------------------------------------- the connection pool
\* DatabaseManager.execute_query step by step, called by several threads.
\* kind: what the Datastore does with the statement (rows: it returns a
\* result set; norows: it runs and returns none; error: it fails).  A
\* connection's transaction (tx) begins with cursor.execute and ends with
\* commit or rollback.
StatementKinds == {"rows", "norows", "error"}

\* pool.getconn(): the connections not in use
FreeConnections == {conn \in Connections : ~connection_pool[conn].used}

\* release_connection that keeps the connection of a call that raised
release_connection_on_success(c) ==
    IF db_calls[c].outcome = "raised" THEN connection_pool
    ELSE [connection_pool EXCEPT ![db_calls[c].conn].used = FALSE]

\* DatabaseManager.release_connection: pool.putconn(conn)
release_connection(c) ==
    [connection_pool EXCEPT ![db_calls[c].conn].used = FALSE]

\* conn = self.get_connection(); getconn raises PoolError when every
\* connection is in use, before the try is entered
DbGetConnection(c, kind, fetch) ==
    /\ db_calls[c].pc = "idle"
    /\ IF FreeConnections = {}
       THEN /\ db_calls' = [db_calls EXCEPT ![c] =
                              [NoDbCall EXCEPT !.outcome = "raised PoolError"]]
            /\ UNCHANGED connection_pool
       ELSE \E conn \in FreeConnections :
              /\ connection_pool' = [connection_pool EXCEPT ![conn].used = TRUE]
              /\ db_calls' = [db_calls EXCEPT ![c] =
                                [pc |-> "cursor_execute", conn |-> conn, fetch |-> fetch,
                                 kind |-> kind, took |-> 1, released |-> 0,
                                 rollbacks |-> 0, outcome |-> "none"]]

\* cursor.execute(query, params)
DbCursorExecute(c) ==
    /\ db_calls[c].pc = "cursor_execute"
    /\ IF db_calls[c].kind = "error"
       THEN /\ connection_pool' = [connection_pool EXCEPT ![db_calls[c].conn].tx = "aborted"]
            /\ db_calls' = [db_calls EXCEPT ![c].pc = "rollback"]
       ELSE /\ connection_pool' = [connection_pool EXCEPT ![db_calls[c].conn].tx = "open"]
            /\ db_calls' = [db_calls EXCEPT ![c].pc = IF db_calls[c].fetch THEN "fetchall"
                                                      ELSE "commit"]

\* cursor.fetchall(): ProgrammingError when there is no result set
DbFetchall(c) ==
    /\ db_calls[c].pc = "fetchall"
    /\ db_calls' = [db_calls EXCEPT ![c].pc = IF db_calls[c].kind = "norows"
                                              THEN "rollback" ELSE "commit"]
    /\ UNCHANGED connection_pool

\* conn.commit(), which the Datastore may refuse; then return
DbCommit(c, ok) ==
    /\ db_calls[c].pc = "commit"
    /\ IF ok
       THEN /\ connection_pool' = [connection_pool EXCEPT ![db_calls[c].conn].tx = "none"]
            /\ db_calls' = [db_calls EXCEPT ![c].pc = "release", ![c].outcome = "returned"]
       ELSE /\ connection_pool' = [connection_pool EXCEPT ![db_calls[c].conn].tx = "aborted"]
            /\ db_calls' = [db_calls EXCEPT ![c].pc = "rollback"]

\* except: conn.rollback(); raise e
DbRollback(c) ==
    /\ db_calls[c].pc = "rollback"
    /\ connection_pool' = [connection_pool EXCEPT ![db_calls[c].conn].tx = "none"]
    /\ db_calls' = [db_calls EXCEPT ![c].pc = "release", ![c].outcome = "raised",
                                    ![c].rollbacks = @ + 1]

\* finally: self.release_connection(conn); the call is over
DbRelease(c) ==
    /\ db_calls[c].pc = "release"
    /\ connection_pool' = release_connection(c)
    /\ db_calls' = [db_calls EXCEPT ![c].pc = "idle", ![c].conn = "none",
                                    ![c].released = @ + 1]

NextPool ==
    \/ \E c \in Callers, kind \in StatementKinds, fetch \in BOOLEAN :
         /\ DbGetConnection(c, kind, fetch)
         /\ UNCHANGED <<system_users, compliance_log, access_control, next_access_id,
                        master_keys, next_key, table_data, clock, last, lag, workers, run>>
    \/ \E c \in Callers :
         /\ DbCursorExecute(c)
         /\ UNCHANGED <<system_users, compliance_log, access_control, next_access_id,
                        master_keys, next_key, table_data, clock, last, lag, workers, run>>
    \/ \E c \in Callers :
         /\ DbFetchall(c)
         /\ UNCHANGED <<system_users, compliance_log, access_control, next_access_id,
                        master_keys, next_key, table_data, clock, last, lag, workers, run>>
    \/ \E c \in Callers, ok \in BOOLEAN :
         /\ DbCommit(c, ok)
         /\ UNCHANGED <<system_users, compliance_log, access_control, next_access_id,
                        master_keys, next_key, table_data, clock, last, lag, workers, run>>
    \/ \E c \in Callers :
         /\ DbRollback(c)
         /\ UNCHANGED <<system_users, compliance_log, access_control, next_access_id,
                        master_keys, next_key, table_data, clock, last, lag, workers, run>>
    \/ \E c \in Callers :
         /\ DbRelease(c)
         /\ UNCHANGED <<system_users, compliance_log, access_control, next_access_id,
                        master_keys, next_key, table_data, clock, last, lag, workers, run>>

SpecPool == Init /\ [][NextPool]_vars

\* ============================================================= claims
\* names and reference lists the properties are evaluated on
ProbeTables == {tEmployees, tEmp, tNosuch, <<"emp", "loyees", "_old">>, <<"loyees">>}
ProbeColumns == {cName, cSsn, cSalary, <<"sal">>, <<"sal", "ary", "_band">>, <<"ary">>}
ProbeTableLists == {<<>>, <<tEmployees>>, <<tNosuch>>, <<tEmployees, tEmp>>}
ProbeColumnLists == {<<>>, <<cSsn>>, <<cName, cSsn>>, <<STAR>>}
Plaintexts == {InitData[tEmployees][i][k].val :
                 i \in DOMAIN InitData[tEmployees], k \in 1..4}

IsQuery == last.op = "execute_query"
IsAdmin(username) == \E u \in get_user(username) : u.role = "admin"

\* a grant row of the user for (table, column)
HasRow(user_id, table_name, column_name) ==
    \E r \in access_control : /\ r.user_id = user_id
                              /\ r.table_name = table_name
                              /\ r.column_name = column_name

\* the column key on record for (table, column), 0 when there is none
KeyOnRecord(table_name, column_name) ==
    IF \E k \in master_keys : k.table_name = table_name /\ k.column_name = column_name
    THEN (CHOOSE k \in master_keys :
            k.table_name = table_name /\ k.column_name = column_name).encrypted_key.wrapped.key
    ELSE 0

SsnOfJohn == <<"1", "2", "3", "-", "4", "5", "-", "6", "7", "8", "9">>

\* C1 (as claimed): a statement from which parse_query extracts no table is
\* never passed to the Datastore and execute_query returns success = false.
C1_FailClosed ==
    (IsQuery /\ (~last.parsed.ok \/ last.parsed.tables = <<>>))
        => (last.result.success = FALSE /\ last.executed = 0)

\* C2: for an existing non-admin principal, check_access(P, T, C) is true iff
\* a grant row exists for exactly (P, T, C) or (P, T, NULL), and
\* check_access(P, T) iff a row exists for (P, T, NULL); rows for other names,
\* prefixes and extensions included, never count.
C2_CheckAccessExact ==
    \A u \in system_users : u.role # "admin" =>
        \A t \in ProbeTables :
            /\ check_access(u.username, t, None) = HasRow(u.user_id, t, None)
            /\ \A c \in ProbeColumns :
                 check_access(u.username, t, c)
                   = (HasRow(u.user_id, t, c) \/ HasRow(u.user_id, t, None))

C2_Witness ==
    /\ HasRow(2, tEmployees, cSalary)
    /\ ~HasRow(2, tEmployees, None)
    /\ check_access(uAnalyst, tEmployees, cSalary)
    /\ ~check_access(uAnalyst, tEmployees, <<"sal", "ary", "_band">>)
    /\ ~check_access(uAnalyst, <<"emp", "loyees", "_old">>, cSalary)
    /\ ~check_access(uAnalyst, tEmployees, None)

\* C3 (as claimed): analyst holds a table-wide grant on employees and a column
\* grant on employees.salary only, employees.ssn is secured; then its
\* SELECT name, ssn FROM employees fails with exactly the one denial item for
\* employees.ssn.
C3_ScenarioDenied ==
    (/\ IsQuery
     /\ last.username = uAnalyst
     /\ last.sql = sqlNameSsn.sql
     /\ HasRow(2, tEmployees, None)
     /\ HasRow(2, tEmployees, cSalary)
     /\ ~HasRow(2, tEmployees, cSsn)
     /\ is_column_encrypted(tEmployees, cSsn))
        => /\ last.result.success = FALSE
           /\ last.result.has_denied_items
           /\ last.result.denied_items
                = << <<"no access to column '", "emp", "loyees", ".", "ssn", "'">> >>

\* C4: an admin is allowed with no denial items whatever the tables, the
\* columns and the grants, and in its successful runs no cell of a secured
\* column is masked: a cell holding a ciphertext under the column's key comes
\* back as its plaintext.
C4_AdminOverride ==
    /\ \A u \in system_users : u.role = "admin" =>
         \A ts \in ProbeTableLists, cs \in ProbeColumnLists :
            LET v == validate_permissions(u.username, ts, cs)
            IN  v.allowed /\ v.denied_items = <<>>
    /\ (IsQuery /\ IsAdmin(last.username)) =>
         /\ last.parsed.ok => (last.validation.allowed /\ last.validation.denied_items = <<>>)
         /\ \A i \in DOMAIN last.raw : \A k \in DOMAIN last.raw[i] :
              LET col == last.raw[i][k].col
                  raw == last.raw[i][k].val
                  out == last.result.data[i][k].val
                  secured == {t \in Range(last.parsed.tables) : is_column_encrypted(t, col)}
              IN  secured # {} =>
                    /\ out # mask_value(raw, "partial")
                    /\ \A pt \in Plaintexts :
                         (\A t \in secured :
                            raw = B64Encode(FernetEncrypt(KeyOnRecord(t, col), pt)))
                           => out = pt

C4_Witness ==
    /\ IsQuery
    /\ last.username = uAdmin
    /\ last.sql = sqlNameSsn.sql
    /\ last.result.success
    /\ \A r \in access_control : r.user_id # 1
    /\ is_column_encrypted(tEmployees, cSsn)
    /\ last.raw[1][2].val # SsnOfJohn
    /\ last.result.data[1][2] = [col |-> cSsn, val |-> SsnOfJohn]

\* C5: for a username that is not in system_users, validate_permissions
\* denies at once, calling neither table_exists nor check_access, and
\* execute_query returns success = false without executing the statement.
C5_UnknownPrincipal ==
    /\ \A username \in Usernames : get_user(username) = {} =>
         \A ts \in ProbeTableLists, cs \in ProbeColumnLists :
            LET v == validate_permissions(username, ts, cs)
            IN  /\ ~v.allowed
                /\ v.calls \cap {"table_exists", "check_access"} = {}
    /\ (IsQuery /\ get_user(last.username) = {}) =>
         /\ last.result.success = FALSE
         /\ last.executed = 0
         /\ last.validation.calls \cap {"table_exists", "check_access"} = {}

C5_Witness ==
    /\ IsQuery
    /\ last.username = uGhost
    /\ last.sql = sqlOne.sql
    /\ last.parsed.ok
    /\ last.result.message = <<"user '", "ghost", "' does not exist">>
    /\ access_control # {}

\* the references execute_query hands to validate_permissions
ReferencedColumns ==
    IF STAR \in Range(last.parsed.columns)
    THEN Concat([i \in DOMAIN last.parsed.tables |->
                   get_table_columns(last.parsed.tables[i])])
    ELSE last.parsed.columns

\* C6: the statement reaches the Datastore only in a call whose validation
\* allowed; a denied call returns success = false with the denial items and
\* the reason, no data, and executes nothing.
C6_ExecuteOnlyIfAllowed ==
    IsQuery =>
        LET v == validate_permissions(last.username, last.parsed.tables, ReferencedColumns)
        IN  /\ last.executed <= 1
            /\ last.executed = 1 => (last.parsed.ok /\ v.allowed)
            /\ (last.parsed.ok /\ ~v.allowed) =>
                 /\ last.result.success = FALSE
                 /\ last.result.has_denied_items
                 /\ last.result.denied_items = v.denied_items
                 /\ last.result.message = v.reason
                 /\ last.result.message # <<>>
                 /\ last.result.data = <<>>
                 /\ last.executed = 0

C6_Witness ==
    /\ IsQuery
    /\ last.username = uAnalyst
    /\ last.sql = sqlNameSalary.sql
    /\ ~HasRow(2, tEmployees, None)
    /\ last.executed = 0
    /\ last.result.message = <<"insufficient permissions">>
    /\ Len(last.result.denied_items) = 3

\* the revocation of the history removed rows of the principal of the run,
\* on a table the run references
RevokedOnReferencedTable ==
    /\ lag.stage = 3
    /\ IsQuery
    /\ lag.revoked_from = lag.username
    /\ lag.table_name \in Range(last.parsed.tables)

RowsOfTuple(user_id, table_name, column_name) ==
    {r \in access_control : /\ r.user_id = user_id
                            /\ r.table_name = table_name
                            /\ r.column_name = column_name}

\* the cell a step of the run has just finished
NewCell == run'.cells[Len(run'.cells)].val
CellFinished == Len(run'.cells) = Len(run.cells) + 1
RunUserId == (CHOOSE u \in get_user(run.username) : TRUE).user_id
SecuredTable == run.parsed.tables[FirstOf(EncryptedIn(run.parsed.tables, CellColumn))]

\* the value a secured cell decrypts to: None for NULL, the text t when the
\* cell is the encryption of t under the column's key on record, the sentinel
\* when the cell holds anything else
PlainOf(raw, table) ==
    LET t == SubSeq(raw, 4, Len(raw) - 4)
    IN  IF raw = None THEN None
        ELSE IF raw = B64Encode(FernetEncrypt(KeyOnRecord(table, CellColumn), t))
        THEN t
        ELSE <<"[decryption error]">>

C9_UpsertKeepsOneRow ==
    /\ [](\A r \in access_control :
            RowsOfTuple(r.user_id, r.table_name, r.column_name) = {r})
    /\ [][last'.op = "grant_access" =>
            LET user_id == (CHOOSE u \in get_user(last'.username) : TRUE).user_id
                rows == RowsOfTuple(user_id, last'.table_name, last'.column_name)
            IN  IF rows # {}
                THEN /\ last'.existed
                     /\ \E r \in rows :
                          access_control'
                            = (access_control \ {r})
                              \cup {[r EXCEPT !.access_level = last'.access_level,
                                              !.granted_at = clock]}
                     /\ Cardinality(access_control') = Cardinality(access_control)
                     /\ next_access_id' = next_access_id
                ELSE /\ ~last'.existed
                     /\ Cardinality(access_control') = Cardinality(access_control) + 1
      ]_vars

C9_Witness ==
    /\ last.op = "grant_access"
    /\ last.existed
    /\ last.column_name = None
    /\ last.access_level = "write"
    /\ clock = 2
    /\ next_access_id = 2
    /\ access_control = {[access_id |-> 1, user_id |-> 2, table_name |-> tEmployees,
                          column_name |-> None, access_level |-> "write",
                          granted_at |-> 2]}

\* C10 (as claimed): when grant_access calls for one tuple interleave at
\* their Datastore statements, access_control has at most one row for the
\* tuple once the calls have returned.
C10_OneRowAfterConcurrentGrants ==
    (\A w \in Workers : workers[w].pc = "idle")
        => \A r \in access_control :
             Cardinality(RowsOfTuple(r.user_id, r.table_name, r.column_name)) <= 1

\* the usernames that have a row in system_users
KnownNames == {u.username : u \in system_users}

\* C11: grant_access and revoke_access for a username that is not in
\* system_users raise an error and leave access_control as it was: no row is
\* inserted, updated or deleted, and no access_id is drawn.
C11_UnknownUserNoMutation ==
    /\ [](\A r \in access_control : \E u \in system_users : u.user_id = r.user_id)
    /\ [][(/\ last'.op \in {"grant_access", "grant_access raised ValueError",
                            "revoke_access", "revoke_access raised ValueError"}
           /\ last'.username \notin KnownNames)
            => /\ last'.op \in {"grant_access raised ValueError",
                                "revoke_access raised ValueError"}
               /\ access_control' = access_control
               /\ next_access_id' = next_access_id
      ]_vars

C11_Witness ==
    /\ last.op = "grant_access raised ValueError"
    /\ last.username = uGhost
    /\ last.column_name = cSalary
    /\ Cardinality(access_control) = 1
    /\ next_access_id = 2

\* the (user_id, table_name, column_name, access_level) rows of a table
GrantTuples(rows) ==
    {<<r.user_id, r.table_name, r.column_name, r.access_level>> : r \in rows}

\* what access_control can be after one more grant_access in this state
GrantAgain(user_id, table_name, column_name, access_level) ==
    IF ExistingGrants(user_id, table_name, column_name) # {}
    THEN {UpdateGrant(e.access_id, access_level) :
            e \in ExistingGrants(user_id, table_name, column_name)}
    ELSE {InsertGrant(user_id, table_name, column_name, access_level)}

LastUserId == (CHOOSE u \in get_user(last.username) : TRUE).user_id

\* C12: in the state a grant_access call leaves, the same call once more
\* gives the same (user, table, column, level) rows; in the state a
\* revoke_access call leaves, the same call once more removes nothing; and a
\* revoke_access removes exactly the rows of its (user, table, column) tuple,
\* a column revocation leaving the table-wide row and the table-wide
\* revocation leaving the column rows.
C12_GrantRevokeIdempotent ==
    /\ [](last.op = "grant_access" =>
            \A again \in GrantAgain(LastUserId, last.table_name, last.column_name,
                                    last.access_level) :
               GrantTuples(again) = GrantTuples(access_control))
    /\ [](last.op = "revoke_access" =>
            /\ DeleteGrants(LastUserId, last.table_name, last.column_name)
                 = access_control
            /\ RowsOfTuple(LastUserId, last.table_name, last.column_name) = {})
    /\ [][last'.op = "revoke_access" =>
            LET user_id == (CHOOSE u \in get_user(last'.username) : TRUE).user_id
            IN  access_control'
                  = access_control
                    \ RowsOfTuple(user_id, last'.table_name, last'.column_name)
      ]_vars

C12_Witness ==
    /\ last.op = "revoke_access"
    /\ last.username = uAnalyst
    /\ last.column_name = cSalary
    /\ last.removed = 1
    /\ HasRow(2, tEmployees, None)
    /\ clock = 2

\* lists of tables with several problems at once
DenialTableLists ==
    ProbeTableLists \cup {<<tNosuch, tEmployees>>, <<tEmp, tNosuch, tEmployees>>}
DenialColumnLists == ProbeColumnLists \cup {<<cName, cSalary>>, <<cSalary, STAR>>}

\* the item validate_permissions records for a table, for a pair
TableItem(t) ==
    IF ~table_exists(t) THEN <<"table '">> \o t \o <<"' does not exist">>
    ELSE <<"no access to table '">> \o t \o <<"'">>
PairItem(pair) ==
    <<"no access to column '">> \o pair[1] \o <<".">> \o pair[2] \o <<"'">>

\* the pairs of a table list and a column list, table by table
Pairs(ts, cs) ==
    [n \in 1..(Len(ts) * Len(cs)) |->
       <<ts[((n - 1) \div Len(cs)) + 1], cs[((n - 1) % Len(cs)) + 1]>>]

\* the items expected for a user: every table that does not exist or has no
\* table-wide row, then, for a list of concrete columns, every pair that has
\* neither a column row nor a table-wide row
ExpectedItems(user_id, ts, cs) ==
    LET bad_tables == SelectSeq(ts, LAMBDA t : ~table_exists(t) \/ ~HasRow(user_id, t, None))
        bad_pairs == SelectSeq(Pairs(ts, cs),
                               LAMBDA p : /\ ~HasRow(user_id, p[1], p[2])
                                          /\ ~HasRow(user_id, p[1], None))
    IN  [i \in DOMAIN bad_tables |-> TableItem(bad_tables[i])]
        \o (IF STAR \in Range(cs) THEN <<>>
            ELSE [i \in DOMAIN bad_pairs |-> PairItem(bad_pairs[i])])

\* C13: for a known non-admin user validate_permissions collects, without
\* stopping at the first, one item per referenced table that does not exist
\* or has no access and then one per (table, column) pair of the concrete
\* columns without access, in the order of evaluation; allowed iff no item.
C13_AllDenialsCollected ==
    \A u \in system_users : u.role # "admin" =>
        \A ts \in DenialTableLists, cs \in DenialColumnLists :
            LET v == validate_permissions(u.username, ts, cs)
            IN  /\ v.denied_items = ExpectedItems(u.user_id, ts, cs)
                /\ v.allowed <=> (v.denied_items = <<>>)

C13_Witness ==
    LET v == validate_permissions(uAnalyst, <<tNosuch, tEmployees>>, <<cName, cSalary>>)
    IN  /\ HasRow(2, tEmployees, cSalary)
        /\ ~v.allowed
        /\ v.denied_items
             = << <<"table '", "nosuch", "' does not exist">>,
                  <<"no access to table '", "emp", "loyees", "'">>,
                  <<"no access to column '", "nosuch", ".", "name", "'">>,
                  <<"no access to column '", "nosuch", ".", "sal", "ary", "'">>,
                  <<"no access to column '", "emp", "loyees", ".", "name", "'">> >>

\* the statement of the most recent execute_query and what the Datastore
\* returns for it
LastStatement == CHOOSE q \in Statements \cup KeyStatements : q.sql = last.sql
LastRows == db_execute(LastStatement).rows

\* the referenced tables, in order, that have a key on record for the column
KeyedTables(col) ==
    SelectSeq(last.parsed.tables, LAMBDA t : KeyOnRecord(t, col) # 0)

\* what a stored value decrypts to under a key: NULL for NULL, the text t
\* when the value is the encryption of t under that key, the sentinel
\* otherwise
PlainUnder(raw, key) ==
    LET t == SubSeq(raw, 4, Len(raw) - 4)
    IN  IF raw = None THEN None
        ELSE IF raw = B64Encode(FernetEncrypt(key, t)) THEN t
        ELSE <<"[decryption error]">>

CipherOf(key, text) == B64Encode(FernetEncrypt(key, text))

\* C14: when the statement was executed and returned rows, the call succeeds
\* with one row per row returned; a secured cell of a principal with access
\* whose decryption fails (the value is no ciphertext, or a ciphertext under
\* a key that has been replaced) is the sentinel '[decryption error]', and
\* every other cell is what it is without the failure: the plaintext for a
\* secured cell that decrypts, the stored value for a cell that is not secured.
C14_DecryptFailureSentinel ==
    (IsQuery /\ last.executed = 1 /\ db_execute(LastStatement).ok /\ LastRows # <<>>)
      => /\ last.result.success = TRUE
         /\ DOMAIN last.result.data = DOMAIN LastRows
         /\ \A i \in DOMAIN LastRows : \A k \in DOMAIN LastRows[i] :
              LET col == LastRows[i][k].col
                  raw == LastRows[i][k].val
                  out == last.result.data[i][k].val
              IN  IF KeyedTables(col) = <<>> THEN out = raw
                  ELSE IF check_access(last.username, KeyedTables(col)[1], col)
                  THEN out = PlainUnder(raw, KeyOnRecord(KeyedTables(col)[1], col))
                  ELSE out = mask_value(raw, "partial")

C14_Witness ==
    /\ IsQuery
    /\ last.sql = sqlSsnSalary.sql
    /\ last.result.success
    /\ KeyOnRecord(tEmployees, cSsn) = 2
    /\ KeyOnRecord(tEmployees, cSalary) = 1
    /\ last.raw[1][1].val = SsnOfJohn
    /\ last.raw[1][2].val = CipherOf(1, <<"8", "5", "0", "0", "0">>)
    /\ last.result.data[1] = <<[col |-> cSsn, val |-> <<"[decryption error]">>],
                               [col |-> cSalary, val |-> <<"8", "5", "0", "0", "0">>]>>
    /\ Len(last.result.data) = 2

\* C15: a successful execute_query returns the rows the Datastore returned,
\* as many and in the same order, each with the column names of the result
\* set in their order, and 'columns' lists those names in that order.
C15_RowAndColumnOrder ==
    (IsQuery /\ last.result.success)
      => /\ db_execute(LastStatement).ok
         /\ Len(last.result.data) = Len(LastRows)
         /\ last.result.columns = (IF LastRows = <<>> THEN <<>> ELSE Keys(LastRows[1]))
         /\ \A i \in DOMAIN LastRows :
              /\ Keys(last.result.data[i]) = Keys(LastRows[i])
              /\ Keys(last.result.data[i]) = last.result.columns
              /\ \A k \in DOMAIN LastRows[i] :
                   LET raw == LastRows[i][k].val
                       col == LastRows[i][k].col
                   IN  last.result.data[i][k].val
                         \in IF KeyedTables(col) = <<>> THEN {raw}
                             ELSE {PlainUnder(raw, KeyOnRecord(KeyedTables(col)[1], col)),
                                   mask_value(raw, "partial")}

C15_Witness ==
    /\ IsQuery
    /\ last.username = uAdmin
    /\ last.sql = sqlNameSsn.sql
    /\ last.result.success
    /\ KeyOnRecord(tEmployees, cSsn) = 1
    /\ last.result.columns = <<cName, cSsn>>
    /\ last.result.data
         = << <<[col |-> cName, val |-> <<"j", "o", "h", "n">>],
                [col |-> cSsn, val |-> SsnOfJohn]>>,
              <<[col |-> cName, val |-> <<"j", "a", "n", "e">>],
                [col |-> cSsn, val |-> <<"4", "3", "2", "1">>]>> >>

\* C16: for every string s and every column with a key on record,
\* decrypt_value(encrypt_value(s, t, c), t, c) = s while the key is not
\* replaced in between; a decrypt_value call on what encrypt_value gives for
\* s under the present key returns s.
C16_RoundTrip ==
    /\ \A tc \in KeyColumns : KeyOnRecord(tc[1], tc[2]) # 0 =>
         \A str \in Strings :
            LET e == encrypt_value(str, tc[1], tc[2])
            IN  /\ e.ok
                /\ e.value # str
                /\ decrypt_value(e.value, tc[1], tc[2]) = [ok |-> TRUE, value |-> str]
    /\ last.op = "decrypt_value" =>
         \A str \in Strings :
            LET e == encrypt_value(str, last.table_name, last.column_name)
            IN  (e.ok /\ e.value = last.encrypted_value)
                  => (last.ok /\ last.value = str)

C16_Witness ==
    /\ last.op = "decrypt_value"
    /\ last.column_name = cSsn
    /\ KeyOnRecord(tEmployees, cSsn) = 2
    /\ last.encrypted_value = CipherOf(2, SsnOfJohn)
    /\ last.ok
    /\ last.value = SsnOfJohn

IsMask(mode) == last.op = "mask_value" /\ last.mask_type = mode /\ last.value # None

\* C17 (as claimed): mask_value(s, 'full') has the length of s and contains
\* no character of s.
C17_FullMaskNoCharacterOfInput ==
    IsMask("full") =>
        /\ Len(last.result) = Len(last.value)
        /\ Range(last.result) \cap Range(last.value) = {}

\* C17 (amended): mask_value(s, 'full') has the length of s and consists of
\* '*' only, so that it contains no character of s other than '*' itself.
C17_FullMaskAllStars ==
    IsMask("full") =>
        /\ Len(last.result) = Len(last.value)
        /\ \A i \in DOMAIN last.result : last.result[i] = "*"
        /\ Range(last.result) \cap Range(last.value) \subseteq {"*"}

C17_Witness ==
    /\ IsMask("full")
    /\ last.value = <<"a", "*", "c", "d", "e">>
    /\ last.result = <<"*", "*", "*", "*", "*">>

\* C18: for len(s) > 4, mask_value(s, 'partial') has the length of s, ends
\* with the last 4 characters of s and has '*' everywhere else; for
\* len(s) <= 4 it is len(s) times '*'.
C18_PartialMask ==
    IsMask("partial") =>
        LET n == Len(last.value)
        IN  /\ Len(last.result) = n
            /\ \A i \in 1..n :
                 last.result[i] = IF n > 4 /\ i > n - 4 THEN last.value[i] ELSE "*"

C18_Witness ==
    /\ IsMask("partial")
    /\ last.value = <<"a", "b", "c", "d">>
    /\ last.result = <<"*", "*", "*", "*">>

\* C19: master_keys has at most one record per (table_name, column_name); a
\* generate_column_key call leaves the column with a key that was never on
\* record before and leaves every other record alone; and a value encrypted
\* under a key that is no longer the one on record is not decrypted by
\* decrypt_value.
C19_OneKeyPerColumn ==
    /\ [](\A k1, k2 \in master_keys :
            (k1.table_name = k2.table_name /\ k1.column_name = k2.column_name)
              => k1 = k2)
    /\ [](\A tc \in KeyColumns, key \in 1..(next_key - 1) :
            key # KeyOnRecord(tc[1], tc[2]) =>
              \A str \in Strings :
                 ~decrypt_value(CipherOf(key, str), tc[1], tc[2]).ok)
    /\ [][last'.op \in {"generate_column_key", "secure_column"} =>
            /\ \E k \in master_keys' :
                  /\ k.table_name = last'.table_name
                  /\ k.column_name = last'.column_name
                  /\ k.encrypted_key.wrapped.key = next_key
            /\ \A k \in master_keys : k.encrypted_key.wrapped.key < next_key
            /\ {k \in master_keys' : ~(k.table_name = last'.table_name
                                       /\ k.column_name = last'.column_name)}
                 = {k \in master_keys : ~(k.table_name = last'.table_name
                                          /\ k.column_name = last'.column_name)}
      ]_vars

C19_Witness ==
    /\ last.op = "generate_column_key"
    /\ last.column_name = cSsn
    /\ KeyOnRecord(tEmployees, cSsn) = 2
    /\ Cardinality(master_keys) = 1
    /\ table_data[tEmployees][1][3].val = CipherOf(1, SsnOfJohn)
    /\ ~decrypt_value(table_data[tEmployees][1][3].val, tEmployees, cSsn).ok

\* pairs with and without a key record, among them the secured column's
\* name in another table
KeyProbes == KeyColumns \cup {<<tEmp, cSsn>>, <<tEmployees, cName>>}

\* C20: without a key record for (table, column) get_column_key fails, and
\* with it encrypt_value and decrypt_value on a non-null value;
\* is_column_encrypted is true iff a record exists for exactly that pair; and
\* none of these calls changes master_keys.
C20_NoKeyFailsWithoutMutation ==
    /\ [](\A tc \in KeyProbes :
            /\ is_column_encrypted(tc[1], tc[2])
                 <=> \E k \in master_keys :
                        k.table_name = tc[1] /\ k.column_name = tc[2]
            /\ (~\E k \in master_keys : k.table_name = tc[1] /\ k.column_name = tc[2])
                 => /\ ~get_column_key(tc[1], tc[2]).ok
                    /\ \A str \in Strings : ~encrypt_value(str, tc[1], tc[2]).ok
                    /\ \A x \in Ciphertexts \ {None} :
                         ~decrypt_value(x, tc[1], tc[2]).ok)
    /\ [][last'.op \in {"get_column_key", "encrypt_value", "decrypt_value",
                        "is_column_encrypted"}
            => /\ master_keys' = master_keys
               /\ next_key' = next_key
               /\ table_data' = table_data
               /\ (last'.op = "is_column_encrypted"
                     => last'.result = (KeyOnRecord(last'.table_name,
                                                    last'.column_name) # 0))
               /\ (/\ last'.op # "is_column_encrypted"
                   /\ KeyOnRecord(last'.table_name, last'.column_name) = 0)
                     => /\ last'.op = "get_column_key" => ~last'.ok
                        /\ (last'.op = "encrypt_value" /\ last'.plaintext # None)
                              => ~last'.ok
                        /\ (last'.op = "decrypt_value" /\ last'.encrypted_value # None)
                              => ~last'.ok
      ]_vars

C20_Witness ==
    /\ last.op = "encrypt_value"
    /\ last.column_name = cSalary
    /\ last.plaintext = SsnOfJohn
    /\ ~last.ok
    /\ KeyOnRecord(tEmployees, cSalary) = 0
    /\ KeyOnRecord(tEmployees, cSsn) = 1

\* the statement of the call on record
CliStatement == CHOOSE q \in CliStatements : q.sql = last.sql

\* statements that select a list of column names from a list of tables, with
\* the names as written
ListStatements == {sqlNameSsn, sqlTwoTables, sqlMissing}
FromNames(q) ==
    IF q.run.kind = "cross" THEN <<q.run.table, q.run.other>> ELSE <<q.run.table>>

\* statements whose select list is a bare '*'
SelectsBareStar(q) ==
    /\ q.parsed # <<>>
    /\ \E i \in DOMAIN q.parsed[1] :
          q.parsed[1][i].ttype = "Wildcard" /\ q.parsed[1][i].value = STAR

\* C22, first part: for a statement selecting a list of column names from a
\* list of tables parse_query returns the tables' names in FROM order and the
\* column names in SELECT order, without the wildcard marker.
C22_ListExtraction ==
    (last.op = "parse_query" /\ CliStatement \in ListStatements) =>
        /\ last.ok
        /\ last.type = <<"SELECT">>
        /\ last.tables = FromNames(CliStatement)
        /\ last.columns = CliStatement.run.columns
        /\ STAR \notin Range(last.columns)

\* C22: reference extraction of a single top-level SELECT: the names of the
\* tables and of the selected columns in their order and no wildcard marker
\* for lists of names; the wildcard marker and no concrete column for a
\* bare '*'.
C22_ReferenceExtraction ==
    /\ C22_ListExtraction
    /\ (last.op = "parse_query" /\ SelectsBareStar(CliStatement)) =>
          /\ last.ok
          /\ last.columns = <<STAR>>

\* C23: every cli execute invocation appends exactly one compliance_log
\* entry with the username, the statement, the extracted tables and columns;
\* status 'success' for a successful query, a non-success status and the
\* reason for one that is denied or fails (unknown principal, insufficient
\* permissions, parse failure, execution failure).
C23_AuditAttribution ==
    [][last'.op = "cli execute" =>
         /\ Len(compliance_log') = Len(compliance_log) + 1
         /\ SubSeq(compliance_log', 1, Len(compliance_log)) = compliance_log
         /\ LET e == compliance_log'[Len(compliance_log')]
            IN  /\ e.username = last'.username
                /\ e.query_text = last'.sql
                /\ e.tables_accessed = JoinOrNone(last'.parsed.tables)
                /\ e.columns_accessed = JoinOrNone(last'.parsed.columns)
                /\ IF last'.result.success
                   THEN e.status = "success"
                   ELSE e.status # "success" /\ e.reason = last'.result.message
      ]_vars

\* the column list after expansion: each referenced table's schema columns
ExpandedColumns(tables) ==
    Concat([i \in DOMAIN tables |-> get_table_columns(tables[i])])

IsValidation == last.op = "validate_permissions" /\ IsNonAdmin(last.username)
ValidationUserId == (CHOOSE u \in get_user(last.username) : TRUE).user_id

\* the user holds a column-specific grant on some column of the table
HasColumnRow(user_id, table_name) ==
    \E r \in access_control : /\ r.user_id = user_id
                              /\ r.table_name = table_name
                              /\ r.column_name # None

\* C24: for a non-admin principal with a column-specific grant on some
\* column of an existing table and no table-wide grant on it,
\* validate_permissions records no table-level denial item for the table, and
\* a query selecting only granted columns of such tables is allowed.
C24_AnyColumnGrantPassesTableCheck ==
    IsValidation =>
        /\ \A i \in DOMAIN last.tables :
              (/\ table_exists(last.tables[i])
               /\ HasColumnRow(ValidationUserId, last.tables[i])
               /\ ~HasRow(ValidationUserId, last.tables[i], None))
                 => (<<"no access to table '">> \o last.tables[i] \o <<"'">>)
                       \notin Range(last.denied_items)
        /\ (/\ last.columns # <<>>
            /\ \A i \in DOMAIN last.tables :
                 /\ table_exists(last.tables[i])
                 /\ \A j \in DOMAIN last.columns :
                      HasRow(ValidationUserId, last.tables[i], last.columns[j]))
              => last.allowed

\* C29: for a non-admin principal validate_permissions checks every
\* requested column against every referenced table, whether or not the table
\* has the column: the pair's item is among the denial items iff the
\* principal has neither a column-specific grant for the pair nor a
\* table-wide grant on the table, and the query is allowed only if no pair
\* lacks both.
C29_ColumnChecksCrossProduct ==
    (IsValidation /\ last.columns # <<>> /\ STAR \notin Range(last.columns)) =>
        /\ \A i \in DOMAIN last.tables, j \in DOMAIN last.columns :
              PairItem(<<last.tables[i], last.columns[j]>>) \in Range(last.denied_items)
                <=> /\ ~HasRow(ValidationUserId, last.tables[i], last.columns[j])
                    /\ ~HasRow(ValidationUserId, last.tables[i], None)
        /\ last.allowed =>
              \A i \in DOMAIN last.tables, j \in DOMAIN last.columns :
                 \/ HasRow(ValidationUserId, last.tables[i], last.columns[j])
                 \/ HasRow(ValidationUserId, last.tables[i], None)
        /\ Len(SelectSeq(last.denied_items, LAMBDA item : item[1] = "no access to column '"))
             = Cardinality({<<i, j>> \in (DOMAIN last.tables) \X (DOMAIN last.columns) :
                              /\ ~HasRow(ValidationUserId, last.tables[i], last.columns[j])
                              /\ ~HasRow(ValidationUserId, last.tables[i], None)})

C29_Witness ==
    /\ IsValidation
    /\ last.tables = <<tEmployees, tEmp>>
    /\ last.columns = <<cSalary>>
    /\ cSalary \notin Range(Schema(tEmp))
    /\ HasRow(2, tEmployees, None)
    /\ access_control = {r \in access_control : r.table_name = tEmployees}
    /\ ~last.allowed
    /\ last.denied_items = << <<"no access to table '", "emp", "'">>,
                              <<"no access to column '", "emp", ".", "sal", "ary", "'">> >>

\* C27: execute_query passes a non-admin's statement to the Datastore only
\* if its kind is SELECT; a non-admin whose grants are all at level 'read'
\* never gets a statement executed that is no query (INSERT, UPDATE, DELETE,
\* DDL).
C27_ReadOnlyForNonWriters ==
    (/\ IsQuery
     /\ IsNonAdmin(last.username)
     /\ \A r \in access_control : r.access_level = "read"
     /\ last.executed > 0)
       => /\ last.parsed.type = <<"SELECT">>
          /\ LastStatement.run.kind # "noresult"

MaskedCell(i, k) ==
    /\ last.result.data[i][k].val # last.raw[i][k].val
    /\ last.result.data[i][k].val = mask_value(last.raw[i][k].val, "partial")

\* C26: in one execute_query call all cells of the same secured column get
\* the same treatment (all decrypted or all masked), and the treatment agrees
\* with the authorization decision of the call (which allowed it: no cell is
\* masked), also when grant_access and revoke_access calls of others run
\* between the authorization and the per-cell checks.
C26_UniformTreatment ==
    (IsQuery /\ last.result.success /\ last.raw # <<>>) =>
        /\ \A k \in DOMAIN last.raw[1] : \A i, j \in DOMAIN last.raw :
              MaskedCell(i, k) <=> MaskedCell(j, k)
        /\ \A k \in DOMAIN last.raw[1] : \A i \in DOMAIN last.raw :
              ~MaskedCell(i, k)

\* C21: in one execute_query call the statement is passed to the Datastore
\* at most once, and a Datastore failure at any point of the call (schema
\* lookup, authorization reads, statement execution, key lookup) comes back
\* as a result with success = False: it is neither retried nor raised to the
\* caller.
C21_NoRetry ==
    IsQuery =>
        /\ last.executed <= 1
        /\ last.failed => (~last.raised /\ ~last.result.success)

\* the connections checked out of the pool
CheckedOut == {conn \in Connections : connection_pool[conn].used}

\* C30: every DatabaseManager.execute_query call returns the connection it
\* took exactly once before it finishes, whether the statement succeeds or
\* raises; a failing statement is rolled back before the connection is
\* released; after any sequence of completed calls no connection is checked
\* out of the pool.
C30_PoolBalance ==
    /\ [](\A c \in Callers :
            IF db_calls[c].pc = "idle"
            THEN /\ db_calls[c].released = db_calls[c].took
                 /\ db_calls[c].outcome = "raised" => db_calls[c].rollbacks = 1
                 /\ db_calls[c].outcome = "returned" => db_calls[c].rollbacks = 0
            ELSE /\ db_calls[c].took = 1
                 /\ db_calls[c].released = 0
                 /\ db_calls[c].conn \in CheckedOut
                 /\ \A d \in Callers \ {c} : db_calls[d].conn # db_calls[c].conn)
    /\ [](Cardinality(CheckedOut)
            = Cardinality({c \in Callers : db_calls[c].pc # "idle"}))
    /\ []((\A c \in Callers : db_calls[c].pc = "idle") => CheckedOut = {})
    /\ [](\A conn \in Connections \ CheckedOut : connection_pool[conn].tx = "none")
    /\ [][\A c \in Callers :
            (db_calls[c].pc # "idle" /\ db_calls'[c].pc = "idle") =>
               /\ ~connection_pool'[db_calls[c].conn].used
               /\ connection_pool[db_calls[c].conn].tx = "none"
               /\ db_calls[c].outcome \in {"returned", "raised"}
               /\ db_calls[c].outcome = "raised" => db_calls[c].rollbacks = 1
      ]_vars

C30_Witness ==
    /\ \A c \in Callers : db_calls[c].pc = "idle"
    /\ CheckedOut = {}
    /\ db_calls["t1"].outcome = "raised"
    /\ db_calls["t1"].released = 1
    /\ db_calls["t1"].rollbacks = 1
    /\ db_calls["t2"].outcome = "returned"
    /\ db_calls["t2"].released = 1
    /\ db_calls["t3"].outcome = "raised PoolError"
    /\ db_calls["t3"].took = 0

====
